---------------------------- MODULE Spec2Model ----------------------------
(***************************************************************************)
(* A model of the hybrid retrieval and answer synthesis engine of the      *)
(* knowledge-base chatbot (src/kb.py).                                     *)
(*                                                                         *)
(* Spec        the global index as Python keeps it (module globals bound   *)
(*             to list objects), rebuilt in place by preload_knowledge     *)
(*             threads while answer_from_kb threads read it.               *)
(***************************************************************************)
EXTENDS Integers, Sequences, FiniteSets, TLC

VARIABLES
  conf,               \* the configuration read from the environment at import
  lib,                \* what the external libraries answer (rapidfuzz, the LLM)
  site,               \* the wiki: per page, what preload_knowledge derives from it
  KB_PAGES,           \* global: reference to the current pages list
  KB_SECTIONS,        \* global: reference to the current sections list
  KB_SECTION_TOKENS,  \* global: reference to the current section-token list
  SECTION_BM25,       \* global: None or a BM25 object
  KB_ROWS,            \* global: reference to the current rows list
  ROW_TOKENS,         \* global: reference to the current row-token list
  ROW_BM25,           \* global: None or a BM25 object
  heap,               \* the list objects, by kind and reference
  build,              \* the preload_knowledge threads
  request,              \* the answer_from_kb threads (request handlers)
  call,               \* the last call made on its own, with what it returned
  store_file,         \* the file at STORE_PATH: None or the JSON document in it
  session,            \* per browser, the uid of its session cookie ("" without one)
  handler             \* the threads serving POST /chat/<chat_id>

vars == <<conf, lib, site, call, KB_PAGES, KB_SECTIONS, KB_SECTION_TOKENS, SECTION_BM25,
          KB_ROWS, ROW_TOKENS, ROW_BM25, heap, build, request,
          store_file, session, handler>>

web == <<store_file, session, handler>>

env == <<conf, lib, site>>

globals == <<KB_PAGES, KB_SECTIONS, KB_SECTION_TOKENS, SECTION_BM25,
             KB_ROWS, ROW_TOKENS, ROW_BM25>>

(***************************************************************************)
(* Bounds.                                                                 *)
(***************************************************************************)
MaxRebuilds == 2
MaxQueries == 1
MaxPages == 2

\* Python's None, where a global holds None or an object.
None == [none |-> TRUE]

(***************************************************************************)
(* A list object is named by the rebuild that created it (0: the empty     *)
(* lists the module globals are bound to at import).                       *)
(***************************************************************************)
Refs == 0..MaxRebuilds
Builders == 1..MaxRebuilds
Queriers == 1..MaxQueries
PageIds == 1..MaxPages

(***************************************************************************)
(* Text.  A Python str is a TLA+ string; a character is a string of length *)
(* one.  The inputs of the model are ASCII.                                *)
(***************************************************************************)
Ch(s, i) == SubSeq(s, i, i)
Min(a, b) == IF a <= b THEN a ELSE b
Max(a, b) == IF a >= b THEN a ELSE b

\* An assignment followed by the statements after it: v is computed first,
\* then Rest reads the computed value (as the interpreter does; a LET would
\* compute v only where Rest first reads it).
Assign(v, Rest(_)) == CHOOSE r \in {Rest(x) : x \in {v}} : TRUE
\* xs[:k] of Python, for a string or a list: a negative k counts from the end.
SliceTo(xs, k) ==
  IF k >= 0 THEN SubSeq(xs, 1, Min(k, Len(xs))) ELSE SubSeq(xs, 1, Max(0, Len(xs) + k))
Prefix(xs, k) == SliceTo(xs, k)

LowerLetters == "abcdefghijklmnopqrstuvwxyz"
UpperLetters == "ABCDEFGHIJKLMNOPQRSTUVWXYZ"
CharsOf(s) == {Ch(s, i) : i \in 1..Len(s)}
Digit == CharsOf("0123456789")
Upper == CharsOf(UpperLetters)
Alpha == CharsOf(LowerLetters) \cup Upper
\* \w and \s of Python's re, on ASCII text.
WordCh == Alpha \cup Digit \cup {"_"}
SpaceCh == {" ", "\t", "\n", "\r", "\f"}

\* str.lower()
LowerCh(c) ==
  IF c \in Upper
  THEN Ch(LowerLetters, CHOOSE i \in 1..26 : Ch(UpperLetters, i) = c)
  ELSE c

\* The string of F(c) for the characters c of s[lo..hi], by quarters.
RECURSIVE MapRange(_, _, _, _)
MapRange(F(_), s, lo, hi) ==
  LET Piece(k) == IF k <= hi THEN F(Ch(s, k)) ELSE ""
      q == (hi - lo + 4) \div 4
      Part(n) == MapRange(F, s, lo + n * q, Min(lo + (n + 1) * q - 1, hi))
  IN IF hi - lo < 4
     THEN (Piece(lo) \o Piece(lo + 1)) \o (Piece(lo + 2) \o Piece(lo + 3))
     ELSE (Part(0) \o Part(1)) \o (Part(2) \o Part(3))
MapFrom(F(_), s, i) == MapRange(F, s, i, Len(s))

lower(s) == MapFrom(LowerCh, s, 1)

\* s.startswith(p), p in s, and the first position of p in s at or after i
\* (0 when there is none).
StartsWithAt(s, i, p) == i + Len(p) - 1 <= Len(s) /\ SubSeq(s, i, i + Len(p) - 1) = p
startswith(s, p) == StartsWithAt(s, 1, p)
Contains(s, p) == \E i \in 1..(Len(s) - Len(p) + 1) : StartsWithAt(s, i, p)
ContainsAny(s, ps) == \E p \in ps : Contains(s, p)

\* str.strip(chars), str.rstrip(chars), str.lstrip(chars)
lstrip_chars(s, cs) ==
  IF \A i \in 1..Len(s) : Ch(s, i) \in cs THEN ""
  ELSE SubSeq(s, CHOOSE i \in 1..Len(s) :
                   Ch(s, i) \notin cs /\ \A j \in 1..(i - 1) : Ch(s, j) \in cs,
              Len(s))
rstrip_chars(s, cs) ==
  IF \A i \in 1..Len(s) : Ch(s, i) \in cs THEN ""
  ELSE SubSeq(s, 1, CHOOSE i \in 1..Len(s) :
                   Ch(s, i) \notin cs /\ \A j \in (i + 1)..Len(s) : Ch(s, j) \in cs)
strip_chars(s, cs) == lstrip_chars(rstrip_chars(s, cs), cs)
strip(s) == strip_chars(s, SpaceCh)
rstrip(s) == rstrip_chars(s, SpaceCh)

\* sep.join(parts)
RECURSIVE JoinRange(_, _, _, _)
JoinRange(sep, parts, lo, hi) ==
  IF lo > hi THEN ""
  ELSE IF lo = hi THEN parts[lo]
  ELSE LET mid == (lo + hi) \div 2
       IN JoinRange(sep, parts, lo, mid) \o sep \o JoinRange(sep, parts, mid + 1, hi)
join(sep, parts) == JoinRange(sep, parts, 1, Len(parts))

\* The pieces of s between the positions (ascending) in cuts, where cut k
\* removes the characters cuts[k][1]..cuts[k][2]: what re.split returns for
\* the matches at those places.
SplitAt(s, from, cuts) ==
  [k \in 1..(Len(cuts) + 1) |->
     SubSeq(s, IF k = 1 THEN from ELSE cuts[k - 1][2] + 1,
               IF k <= Len(cuts) THEN cuts[k][1] - 1 ELSE Len(s))]

\* The leftmost non-overlapping matches, from position i on, of a pattern
\* whose match starting at position k ends at End(s, k) (k - 1 when the
\* pattern does not match at k): the scan of re.finditer.
RECURSIVE MatchesIn(_, _, _, _)
MatchesIn(End(_, _), s, lo, hi) ==
  IF lo > hi THEN <<>>
  ELSE IF lo = hi
  THEN (IF End(s, lo) >= lo THEN <<<<lo, End(s, lo)>>>> ELSE <<>>)
  ELSE LET mid == (lo + hi) \div 2
           left == MatchesIn(End, s, lo, mid)
           resume == IF left = <<>> THEN mid + 1
                     ELSE Max(mid + 1, left[Len(left)][2] + 1)
       IN left \o MatchesIn(End, s, resume, hi)
Scan(End(_, _), s, i) == MatchesIn(End, s, i, Len(s))

\* The same matches for a pattern whose match inside another match of it
\* ends no later than that match (runs of a character class, literals):
\* the scan takes a place where the pattern matches exactly when no match
\* from an earlier place reaches it.
Matches(End(_, _), s, i) ==
  LET IsStart(k) == k >= i /\ End(s, k) >= k
      starts == SelectSeq([k \in 1..Len(s) |-> k], IsStart)
      Free(r) == \A j \in 1..(r - 1) : End(s, starts[j]) < starts[r]
      taken == SelectSeq([r \in 1..Len(starts) |-> r], Free)
  IN [m \in 1..Len(taken) |-> <<starts[taken[m]], End(s, starts[taken[m]])>>]

\* The end of the longest run of characters of cs that starts at i (i - 1
\* when s[i] is not in cs).
RunEnd(s, i, cs) ==
  LET stops == {k \in i..Len(s) : Ch(s, k) \notin cs}
  IN IF i > Len(s) THEN i - 1
     ELSE IF stops = {} THEN Len(s)
     ELSE (CHOOSE a \in stops : \A b \in stops : a <= b) - 1

\* str.splitlines(), for text whose only line boundary is "\n".
NewlineEnd(s, i) == IF Ch(s, i) = "\n" THEN i ELSE i - 1
splitlines(s) ==
  Assign(Matches(NewlineEnd, s, 1), LAMBDA breaks :
  Assign(SplitAt(s, 1, breaks), LAMBDA parts :
    IF s = "" THEN <<>>
    ELSE IF parts[Len(parts)] = "" THEN SubSeq(parts, 1, Len(parts) - 1)
    ELSE parts))

\* str.split(): the maximal runs of non-space characters.
SpaceRunEnd(s, i) == RunEnd(s, i, SpaceCh)
split(s) ==
  Assign(strip(s), LAMBDA t :
  Assign(Matches(SpaceRunEnd, t, 1), LAMBDA gaps :
    IF t = "" THEN <<>> ELSE SplitAt(t, 1, gaps)))

\* \b of Python's re before position i of s (between s[i-1] and s[i]).
IsWordAt(s, i) == i >= 1 /\ i <= Len(s) /\ Ch(s, i) \in WordCh
Boundary(s, i) == IsWordAt(s, i - 1) # IsWordAt(s, i)

\* A phrase is a sequence of words; as a pattern its words are separated by
\* \s+ .  The end of the match of phrase at position i of s (i - 1: none).
RECURSIVE PhraseEnd(_, _, _)
PhraseEnd(s, i, phrase) ==
  IF ~StartsWithAt(s, i, phrase[1]) THEN i - 1
  ELSE LET e == i + Len(phrase[1]) - 1
       IN IF Len(phrase) = 1 THEN e
          ELSE LET g == RunEnd(s, e + 1, SpaceCh)
               IN IF g = e THEN i - 1
                  ELSE LET r == PhraseEnd(s, g + 1, Tail(phrase))
                       IN IF r = g THEN i - 1 ELSE r

\* re.search(r"\b(p1|p2|...)\b", s) for phrases p1, p2, ...
SearchPhrases(s, phrases) ==
  \E i \in 1..Len(s) : \E ph \in phrases :
     LET e == PhraseEnd(s, i, ph)
     IN e >= i /\ Boundary(s, i) /\ Boundary(s, e + 1)

\* ^\d+\.\s at position i of s: the end of the match (i - 1: none).
NumberedEnd(s, i) ==
  LET d == RunEnd(s, i, Digit)
  IN IF d >= i /\ d + 2 <= Len(s) /\ Ch(s, d + 1) = "." /\ Ch(s, d + 2) \in SpaceCh
     THEN d + 2 ELSE i - 1
IsNumbered(ln) == NumberedEnd(ln, 1) >= 1


(***************************************************************************)
(* Answer formatting: sanitize_output, post_process_answer,                *)
(* format_row_better and their patterns.                                   *)
(***************************************************************************)
\* FORBIDDEN_PHRASES, the default of lines 100-103.
FORBIDDEN_PHRASES ==
  {"contact support", "contact administrator", "system administrator",
   "open a ticket", "reach out to support", "consult support",
   "consult administrator"}

\* ESCALATE_PAT.search(low): any of these, anywhere in the line.
ESCALATE_PAT(low) ==
  ContainsAny(low, {"contact", "reach out", "open a ticket", "administrator",
                    "support"})

\* ALT_PAT.search(low); the alternative with a typographic apostrophe
\* ("if that doesn't") cannot match ASCII text.
ALT_PAT(low) ==
  SearchPhrases(low, {<<"or">>, <<"alternatively">>, <<"optionally">>,
                      <<"another way">>, <<"if that does not">>,
                      <<"if the issue persists">>})

\* GENERIC_FILLER_PAT.search(low)
GENERIC_FILLER_PAT(low) ==
  SearchPhrases(low, {<<"check", "for", "typos">>,
                      <<"consult", "documentation">>,
                      <<"refer", "to", "documentation">>,
                      <<"make", "sure", "to", "double", "check">>,
                      <<"ensure", "that", "everything", "is", "correct">>})

\* re.sub(pattern, repl, s) for a pattern given by the ends of its matches.
re_sub(End(_, _), repl, s) ==
  Assign(Matches(End, s, 1), LAMBDA cuts : join(repl, SplitAt(s, 1, cuts)))

\* \n(?=\d+\.\s): a line break followed by a numbered-step prefix.
BlockBreakEnd(s, i) ==
  IF Ch(s, i) = "\n" /\ NumberedEnd(s, i + 1) >= i + 1 THEN i ELSE i - 1

\* \n{3,}
BlankRunEnd(s, i) ==
  LET e == RunEnd(s, i, {"\n"}) IN IF e >= i + 2 THEN e ELSE i - 1

\* The lines sanitize_output keeps (lines 736-754).
KeepsLine(ln) ==
  LET low == strip(lower(ln))
  IN /\ ~(ContainsAny(low, FORBIDDEN_PHRASES) \/ ESCALATE_PAT(low))
     /\ ~(ALT_PAT(low) /\ ~IsNumbered(ln))
     /\ ~GENERIC_FILLER_PAT(low)
     /\ strip(ln) # ""

KeepsBlock(b) == startswith(b, "1.") \/ startswith(b, "Notes:")

MapSeq(F(_), xs) == [i \in 1..Len(xs) |-> F(xs[i])]

\* sanitize_output(text), lines 731-765.
sanitize_output(text) ==
  Assign(splitlines(text), LAMBDA lines :
  Assign(SelectSeq(MapSeq(rstrip, lines), KeepsLine), LAMBDA keep :
  Assign(strip(join("\n", keep)), LAMBDA out :
  Assign(Matches(BlockBreakEnd, out, 1), LAMBDA breaks :
  Assign(SplitAt(out, 1, breaks), LAMBDA blocks :
  Assign(IF Len(blocks) > 1
         THEN blocks[1] \o "\n" \o join("\n", SelectSeq(Tail(blocks), KeepsBlock))
         ELSE out, LAMBDA first :
  Assign(re_sub(BlankRunEnd, "\n\n", first), LAMBDA collapsed :
    strip(collapsed))))))))

\* str(n) for a natural number n.
RECURSIVE str(_)
str(n) ==
  IF n < 10 THEN Ch("0123456789", n + 1)
  ELSE str(n \div 10) \o Ch("0123456789", (n % 10) + 1)

\* A match of the literal p at position i of s, ignoring case (p lower case).
StartsWithAtI(s, i, p) ==
  i + Len(p) - 1 <= Len(s) /\ \A j \in 1..Len(p) : LowerCh(Ch(s, i + j - 1)) = Ch(p, j)

\* \bSource:
SourceEnd(s, i) ==
  IF Boundary(s, i) /\ StartsWithAt(s, i, "Source:") THEN i + 6 ELSE i - 1

\* [ \t]+
BlanksEnd(s, i) == RunEnd(s, i, {" ", "\t"})

\* \n\s*\n : a line break, then white space up to its last line break.
ParaEnd(s, i) ==
  LET g == RunEnd(s, i + 1, SpaceCh)
      brk == {k \in (i + 1)..g : Ch(s, k) = "\n"}
  IN IF Ch(s, i) = "\n" /\ brk # {}
     THEN CHOOSE k \in brk : \A m \in brk : m <= k
     ELSE i - 1

\* (Do this:)\s*(\n\s*Do this:)+ with re.I; e is the end of a "Do this:".
RECURSIVE DoThisMore(_, _)
DoThisMore(s, e) ==
  LET g == RunEnd(s, e + 1, SpaceCh)
  IN IF e + 1 <= Len(s) /\ Ch(s, e + 1) = "\n" /\ StartsWithAtI(s, g + 1, "do this:")
     THEN DoThisMore(s, g + 8)
     ELSE e
DoThisEnd(s, i) ==
  LET e == i + 7
      g == RunEnd(s, e + 1, SpaceCh)
  IN IF /\ StartsWithAtI(s, i, "do this:")
        /\ \E k \in (e + 1)..g : Ch(s, k) = "\n"
        /\ StartsWithAtI(s, g + 1, "do this:")
     THEN DoThisMore(s, g + 8)
     ELSE i - 1

\* re.sub with the replacement \1, where group 1 is the first n characters
\* of each match.
Splice(s, from, cuts, n) ==
  LET parts == SplitAt(s, from, cuts)
  IN join("", [k \in 1..Len(parts) |->
                 parts[k] \o (IF k <= Len(cuts)
                              THEN SubSeq(s, cuts[k][1], cuts[k][1] + n - 1) ELSE "")])

\* The character that ends a truncated answer (U+2026 in the source; it does
\* not occur in the texts of the model).
Ellipsis == "~"

\* post_process_answer(raw), lines 767-775.
post_process_answer(raw0) ==
  Assign(Matches(SourceEnd, raw0, 1), LAMBDA sources :
  Assign(SplitAt(raw0, 1, sources)[1], LAMBDA raw1 :
  Assign(re_sub(BlanksEnd, " ", raw1), LAMBDA raw2 :
  Assign(re_sub(ParaEnd, "\n\n", raw2), LAMBDA raw3 :
  Assign(splitlines(raw3), LAMBDA lines :
  Assign(strip(join("\n", MapSeq(rstrip, lines))), LAMBDA out1 :
  Assign(Matches(DoThisEnd, out1, 1), LAMBDA repeats :
  Assign(Splice(out1, 1, repeats, 8), LAMBDA out2 :
    IF conf.MAX_ANSWER_CHARS >= 0 /\ Len(out2) > conf.MAX_ANSWER_CHARS
    THEN SliceTo(out2, conf.MAX_ANSWER_CHARS - 1) \o Ellipsis
    ELSE out2))))))))

\* STEP_VERB_RE.search(ln)
StepVerbs ==
  {"click", "open", "go to", "navigate", "set", "select", "choose", "enter",
   "type", "check", "uncheck", "enable", "disable", "restart", "run",
   "execute", "update", "apply", "save", "retry", "clear", "delete", "remove",
   "add", "verify", "confirm", "test"}
STEP_VERB_RE(ln) ==
  \E v \in StepVerbs : StartsWithAtI(ln, 1, v) /\ Boundary(ln, Len(v) + 1)

\* SHELL_CMD_PAT.search(ln)
ShellCmds ==
  {"sudo", "ls", "cat", "tail", "head", "grep", "awk", "sed", "find", "chmod",
   "chown", "chgrp", "cp", "mv", "rm", "mkdir", "rmdir", "ln", "touch",
   "systemctl", "service", "journalctl", "ssh", "scp", "sftp", "kubectl",
   "helm", "docker", "podman", "compose", "psql", "mysql", "mongo",
   "redis-cli", "curl", "wget", "tar", "zip", "unzip", "gzip", "gunzip"}
ShellCmdAt(ln, i) ==
  \E c \in ShellCmds :
     /\ StartsWithAtI(ln, i, c)
     /\ Boundary(ln, i + Len(c))
     /\ (i + Len(c) > Len(ln) \/ Ch(ln, i + Len(c)) \in SpaceCh)
SHELL_CMD_PAT(ln) ==
  \/ ShellCmdAt(ln, 1)
  \/ startswith(ln, "$") /\ ShellCmdAt(ln, RunEnd(ln, 2, SpaceCh) + 1)

\* [.;]\s+|\n+
FragmentBreakEnd(s, i) ==
  IF Ch(s, i) \in {".", ";"} /\ RunEnd(s, i + 1, SpaceCh) >= i + 1
  THEN RunEnd(s, i + 1, SpaceCh)
  ELSE RunEnd(s, i, {"\n"})

NonBlank(x) == strip(x) # ""
StripBullet(x) == strip_chars(x, {" ", "-", "\t"})

\* The loop of _crisp_lines: a fragment of at most two characters joins the
\* fragment before it.
RECURSIVE MergeShort(_, _)
MergeShort(out, raw) ==
  IF raw = <<>> THEN out
  ELSE LET p == Head(raw)
       IN IF Len(p) <= 2 /\ out # <<>>
          THEN MergeShort([out EXCEPT ![Len(out)] = strip(out[Len(out)] \o " " \o p)],
                          Tail(raw))
          ELSE MergeShort(Append(out, p), Tail(raw))

\* A remedy taken as one step, whatever its sentences.
OneFragment(s) == IF strip(s) = "" THEN <<>> ELSE <<strip(s)>>

\* _crisp_lines(s), lines 782-791.
_crisp_lines(s) ==
  Assign(Matches(FragmentBreakEnd, s, 1), LAMBDA breaks :
  Assign(SplitAt(s, 1, breaks), LAMBDA parts :
  Assign(MapSeq(StripBullet, SelectSeq(parts, NonBlank)), LAMBDA raw :
    MergeShort(<<>>, raw \o <<>>))))

\* re.sub(r"^\$\s*", "", ln).strip()
StripPrompt(ln) ==
  strip(IF startswith(ln, "$") THEN SubSeq(ln, RunEnd(ln, 2, SpaceCh) + 1, Len(ln))
        ELSE ln)

\* group_commands(lines), lines 793-802.
IsStepLine(ln) == ~SHELL_CMD_PAT(ln)
group_commands(lines) ==
  <<SelectSeq(lines, IsStepLine), MapSeq(StripPrompt, SelectSeq(lines, SHELL_CMD_PAT))>>

ActionLike(ln) ==
  STEP_VERB_RE(ln) \/ Contains(ln, ":") \/ Contains(ln, ">") \/ Contains(ln, "/")

NotFiller(t) == ~GENERIC_FILLER_PAT(lower(t))
Bullet(t) == "- " \o t

\* The code fence (three backquotes in the source; the texts of the model
\* have no backquote).
Fence == "'''"

\* format_row_better(row), lines 805-860.
format_row_better(row) ==
  Assign(strip(row.error), LAMBDA title :
  Assign(strip(row.cause), LAMBDA cause :
  Assign(_crisp_lines(row.remedy), LAMBDA steps_raw :
  Assign(_crisp_lines(row.suggestions), LAMBDA tips_all :
  Assign(group_commands(steps_raw), LAMBDA grouped :
    LET steps_all == grouped[1]
        cmd_lines == grouped[2]
        actiony == SelectSeq(steps_all, ActionLike)
        chosen == IF actiony = <<>> THEN steps_all ELSE actiony
        filtered_steps == SliceTo(chosen, conf.PINPOINT_MAX_STEPS)
        concrete == SelectSeq(tips_all, NotFiller)
        notes == Prefix(concrete, 2)
    IN Assign((IF title # "" THEN <<"Resolution for: " \o title>> ELSE <<>>)
              \o (IF cause # "" THEN <<"\nWhy:", "- " \o cause>> ELSE <<>>)
              \o (IF filtered_steps # <<>>
                  THEN <<"\nDo this:">> \o
                       [i \in 1..Len(filtered_steps) |->
                          str(i) \o ". " \o filtered_steps[i]]
                  ELSE <<>>)
              \o (IF cmd_lines # <<>>
                  THEN <<"\nCommands:", Fence \o "bash">> \o cmd_lines \o <<Fence>>
                  ELSE <<>>)
              \o (IF notes # <<>> THEN <<"\nNotes:">> \o MapSeq(Bullet, notes)
                  ELSE <<>>), LAMBDA lines :
         strip(join("\n", lines))))))))

(***************************************************************************)
(* Tokenization and BM25.                                                  *)
(***************************************************************************)
Range(f) == {f[i] : i \in DOMAIN f}
Count(xs, x) == Cardinality({i \in DOMAIN xs : xs[i] = x})

RECURSIVE SumSeq(_)
SumSeq(xs) == IF xs = <<>> THEN 0 ELSE Head(xs) + SumSeq(Tail(xs))

STOP ==
  {"the", "and", "for", "that", "with", "this", "from", "into", "your", "you",
   "are", "was", "were", "have", "has", "had", "but", "not", "any", "can",
   "could", "should", "would", "will", "shall", "about", "also", "then",
   "than", "when", "what", "which", "how", "why", "use", "used", "using",
   "via", "out", "over", "under", "on", "in", "of", "to", "a", "an", "is",
   "it", "be", "as", "at", "by", "or", "if", "we", "our", "their", "they",
   "them", "he", "she", "his", "her", "its"}

\* re.sub(r"[^\w\s-]", " ", s), one character at a time.
TokenCh(c) == IF c \in WordCh \cup SpaceCh \cup {"-"} THEN c ELSE " "
IsToken(w) == Len(w) > 2 /\ w \notin STOP

\* tokenize(s), lines 620-623.
tokenize(s) ==
  Assign(lower(s), LAMBDA low :
  Assign(MapFrom(TokenCh, low, 1), LAMBDA spaced :
    SelectSeq(split(spaced), IsToken)))

\* Scores are fixed-point numbers: One stands for 1.0.
One == 100000

\* math.log(k) for k = 1..40, in units of 1/One.
LnTable ==
  <<0, 69315, 109861, 138629, 160944, 179176, 194591, 207944, 219722, 230259,
    239790, 248491, 256495, 263906, 270805, 277259, 283321, 289037, 294444,
    299573, 304452, 309104, 313549, 317805, 321888, 325810, 329584, 333220,
    336730, 340120, 343399, 346574, 349651, 352636, 355535, 358352, 361092,
    363759, 366356, 368888>>

(***************************************************************************)
(* The Confluence site: what get_page_content(pid) returns.  html is the   *)
(* markup as BeautifulSoup parses it: whether there is any, and its        *)
(* tables, each a sequence of tr elements (inside a thead or not) of th    *)
(* and td cells.                                                           *)
(***************************************************************************)
Cell(tag, text) == [tag |-> tag, text |-> text]
HeaderRow(names) == [head |-> TRUE, cells |-> [i \in DOMAIN names |-> Cell("th", names[i])]]
DataRow(texts) == [head |-> FALSE, cells |-> [i \in DOMAIN texts |-> Cell("td", texts[i])]]
Catalog(rows) ==
  [markup |-> TRUE,
   tables |-> <<[thead |-> TRUE,
                 trs |-> <<HeaderRow(<<"Error", "Cause", "Remedy">>)>> \o rows]>>]
NoTables == [markup |-> TRUE, tables |-> <<>>]

\* More rows than get_row_candidates returns.
ManyRows == 13

Pages ==
  <<[error |-> FALSE, title |-> "Error Catalog", url |-> "/catalog",
     text |-> "ORA-12154: check the tnsnames.ora entry.",
     html |-> Catalog(<<DataRow(<<"ORA-12154", "TNS could not resolve",
                                  "Check tnsnames.ora entry. Restart listener.">>)>>)],
    [error |-> FALSE, title |-> "Network", url |-> "/network",
     text |-> "Open the Services tab. Restart the listener. Contact support if it fails.",
     html |-> Catalog(<<DataRow(<<"Listener down", "ORA-12541 no listener", "">>)>>)],
    [error |-> FALSE, title |-> "Access Errors", url |-> "/access",
     text |-> "",
     html |-> Catalog(<<DataRow(<<"Login failed", "",
                                  "Contact support to reset the password.">>),
                        DataRow(<<"Export button missing", "Role lacks export",
                                  "Open Settings > Roles. Enable export; save.">>)>>)],
    [error |-> FALSE, title |-> "FAQ", url |-> "/faq",
     text |-> "ACCESS\n\nContact support for access.\n\nMenu:\n\nClick the admin menu. Select Reset.",
     html |-> NoTables],
    [error |-> TRUE, title |-> "", url |-> "", text |-> "",
     html |-> [markup |-> FALSE, tables |-> <<>>]],
    [error |-> FALSE, title |-> "Jobs", url |-> "/jobs",
     text |-> "Jobs fail at night.",
     html |-> Catalog(<<DataRow(<<"", "Queue is full", "Raise the limit.">>),
                        DataRow(<<"Job timeout", "Queue is full",
                                  "Raise the limit.">>)>>)],
    [error |-> FALSE, title |-> "Untitled", url |-> "/blank", text |-> "  ",
     html |-> [markup |-> FALSE, tables |-> <<>>]],
    [error |-> FALSE, title |-> "Limits", url |-> "/limits", text |-> "Limits.",
     html |-> Catalog([k \in 1..ManyRows |->
                         DataRow(<<IF k \in {2, 4, ManyRows} THEN "Disk full"
                                   ELSE IF k = 7 THEN "Quota exceeded"
                                   ELSE "Limit reached",
                                   "", "Free space.">>)])]>>

get_page_content(pid) == Pages[pid]

(***************************************************************************)
(* Table parsing.                                                          *)
(***************************************************************************)
HEADER_ALIASES ==
  [error |-> {"error", "errors", "message", "error message", "problem"},
   cause |-> {"cause", "causes", "root cause"},
   remedy |-> {"remedy", "solution", "fix", "resolution"},
   suggestions |-> {"suggestion", "suggestions", "note", "notes", "hint",
                    "hints", "tip", "tips"}]

\* _clean_cell_text(el), on the text of the element.
_clean_cell_text(text) == strip(join(" ", split(text)))

\* _normalize_header(h), lines 658-666.
_normalize_header(h0) ==
  Assign(lower(strip(h0)), LAMBDA h :
    IF h \in HEADER_ALIASES.error THEN "error"
    ELSE IF h \in HEADER_ALIASES.cause THEN "cause"
    ELSE IF h \in HEADER_ALIASES.remedy THEN "remedy"
    ELSE IF h \in HEADER_ALIASES.suggestions THEN "suggestions"
    ELSE IF ContainsAny(h, {"error", "message", "problem"}) THEN "error"
    ELSE IF Contains(h, "cause") THEN "cause"
    ELSE IF ContainsAny(h, {"remedy", "solution", "fix", "resolution"}) THEN "remedy"
    ELSE IF ContainsAny(h, {"suggest", "note", "tip"}) THEN "suggestions"
    ELSE IF h # "" THEN h ELSE "col")

IsTh(c) == c.tag = "th"
IsTd(c) == c.tag = "td"
HeaderOf(c) == _normalize_header(_clean_cell_text(c.text))

RECURSIVE FlattenRange(_, _, _)
FlattenRange(xss, lo, hi) ==
  IF lo > hi THEN <<>>
  ELSE IF lo = hi THEN xss[lo]
  ELSE LET mid == (lo + hi) \div 2
       IN FlattenRange(xss, lo, mid) \o FlattenRange(xss, mid + 1, hi)
Flatten(xss) == FlattenRange(xss, 1, Len(xss))

\* lines 670-678: the headers of a table.
TableHeaders(table) ==
  LET InHead(tr) == tr.head
      HeadThs(tr) == SelectSeq(tr.cells, IsTh)
      ths == Flatten(MapSeq(HeadThs, SelectSeq(table.trs, InHead)))
  IN IF table.thead /\ ths # <<>> THEN MapSeq(HeaderOf, ths)
     ELSE IF table.trs # <<>> THEN MapSeq(HeaderOf, table.trs[1].cells)
     ELSE <<>>

\* lines 680-692: the row of one tr, or <<>> when the tr gives none.
TableRow(headers, tr) ==
  Assign(SelectSeq(tr.cells, IsTd), LAMBDA tds :
    LET Key(i) == IF i - 1 < Len(headers) THEN headers[i] ELSE "col" \o str(i - 1)
        Get(key) ==
          Assign({i \in DOMAIN tds : Key(i) = key}, LAMBDA at :
            IF at = {} THEN ""
            ELSE strip(_clean_cell_text(tds[CHOOSE i \in at : \A j \in at : j <= i].text)))
    IN Assign([key \in {"error", "cause", "remedy", "suggestions"} |-> Get(key)],
              LAMBDA fields :
         IF tds = <<>> \/ Len(fields.error) < 3 THEN <<>>
         ELSE <<[error |-> fields.error, cause |-> fields.cause,
                 remedy |-> fields.remedy, suggestions |-> fields.suggestions,
                 text |-> join(" ", SelectSeq(<<fields.error, fields.cause,
                                                fields.remedy, fields.suggestions>>,
                                              LAMBDA v : v # ""))]>>))

\* extract_table_rows_from_html(html), lines 667-693.
extract_table_rows_from_html(html) ==
  Flatten(MapSeq(LAMBDA table :
            Assign(TableHeaders(table), LAMBDA headers :
              Flatten(MapSeq(LAMBDA tr : TableRow(headers, tr), table.trs))),
          html.tables))

(***************************************************************************)
(* Sections of a page text.                                                *)
(***************************************************************************)
\* text.split("\n\n")
ParaBreakEnd(s, i) == IF StartsWithAt(s, i, "\n\n") THEN i + 1 ELSE i - 1

\* re.match(r"^[A-Z][A-Z0-9 \-_/()]+$|.*:\s*$", p.strip())
IsHeading(p) ==
  Assign(strip(p), LAMBDA t :
     \/ /\ Len(t) >= 2
        /\ Ch(t, 1) \in Upper
        /\ \A i \in 2..Len(t) :
              Ch(t, i) \in Upper \cup Digit \cup {" ", "-", "_", "/", "(", ")"}
     \/ /\ Len(t) >= 1
        /\ Ch(t, Len(t)) = ":"
        /\ \A i \in 1..(Len(t) - 1) : Ch(t, i) # "\n")

\* The loop of lines 1060-1069 over the paragraphs, and lines 1070-1073.
RECURSIVE SectionLoop(_, _, _, _, _)
SectionLoop(paras, sections, offset, chunk, start) ==
  LET Close == Assign(strip(join("\n\n", chunk)), LAMBDA sec :
                 Append(sections, <<sec, start, start + Len(sec)>>))
  IN IF paras = <<>> THEN (IF chunk # <<>> THEN Close ELSE sections)
     ELSE LET p == Head(paras)
          IN IF IsHeading(p) /\ chunk # <<>>
             THEN SectionLoop(Tail(paras), Close, offset + Len(p) + 2, <<p>>, offset)
             ELSE SectionLoop(Tail(paras), sections, offset + Len(p) + 2,
                              Append(chunk, p),
                              IF chunk = <<>> THEN offset ELSE start)

\* sectionize(text), lines 1056-1073.
sectionize(text) ==
  IF text = "" THEN <<>>
  ELSE SectionLoop(SelectSeq(SplitAt(text, 1, Matches(ParaBreakEnd, text, 1)), NonBlank),
                   <<>>, 0, <<>>, 0)

(***************************************************************************)
(* The index.  An element of a list is the dict or token list that         *)
(* preload_knowledge built from section k, or row k, of page p; the lists  *)
(* hold these as [page |-> p, sec |-> k] and [page |-> p, row |-> k], and  *)
(* the fields are read through the operators below.                        *)
(***************************************************************************)
\* line 1111: sectionize(text) or one section of at most 1200 characters.
SectionsOf(page) ==
  Assign(strip(page.text), LAMBDA text :
  Assign(sectionize(text), LAMBDA secs :
    IF secs # <<>> THEN secs
    ELSE <<<<Prefix(text, 1200), 0, Min(1200, Len(text))>>>>))
\* lines 1113 and 1122: the token lists of the sections, of the rows.
SectionTokensOf(secs) == [k \in DOMAIN secs |-> tokenize(secs[k][1])]
RowTokensOf(rows) ==
  [k \in DOMAIN rows |->
     tokenize(join(" ", <<rows[k].error, rows[k].cause, rows[k].remedy,
                          rows[k].suggestions>>))]

\* What preload_knowledge derives from each page of the site.
Derived ==
  [pid \in DOMAIN Pages |->
     Assign(SectionsOf(Pages[pid]), LAMBDA secs :
     Assign(extract_table_rows_from_html(Pages[pid].html), LAMBDA rows :
       [sections |-> secs,
        section_tokens |-> SectionTokensOf(secs),
        rows |-> rows,
        row_tokens |-> RowTokensOf(rows)]))]

SectionItems(pid) == [k \in DOMAIN site[pid].sections |-> [page |-> pid, sec |-> k]]
RowItems(pid) == [k \in DOMAIN site[pid].rows |-> [page |-> pid, row |-> k]]

ItemTitle(item) == get_page_content(item.page).title
ItemUrl(item) == get_page_content(item.page).url
ItemRow(item) == site[item.page].rows[item.row]
ItemText(item) == site[item.page].sections[item.sec][1]
ItemTokens(item) ==
  IF "row" \in DOMAIN item THEN site[item.page].row_tokens[item.row]
  ELSE site[item.page].section_tokens[item.sec]

(***************************************************************************)
(* Retrieval: the row scorer, the candidates, the section ranker.          *)
(***************************************************************************)
\* s[i], or "" outside s.
At(s, i) == IF i >= 1 /\ i <= Len(s) THEN Ch(s, i) ELSE ""

\* fuzz.partial_ratio(s1, s2): 100 when the shorter string occurs in the
\* longer one; otherwise the library's value, which the model leaves open.
partial_ratio(s1, s2, open) ==
  IF s1 # "" /\ s2 # "" /\ (Contains(s1, s2) \/ Contains(s2, s1)) THEN 100 ELSE open

\* fuzz.token_set_ratio(s1, s2): 0 when either has no token, 100 when the
\* words of one are among the words of the other; otherwise left open.
token_set_ratio(s1, s2, open) ==
  Assign(Range(split(s1)), LAMBDA a :
  Assign(Range(split(s2)), LAMBDA b :
    IF a = {} \/ b = {} THEN 0
    ELSE IF a \subseteq b \/ b \subseteq a THEN 100
    ELSE open))

AlnumCh == Alpha \cup Digit

\* The four alternatives of ERROR_CODE_PAT at position i (re.I).
OraEnd(s, i) ==
  LET d == RunEnd(s, i + 4, Digit)
  IN IF StartsWithAtI(s, i, "ora-") /\ d - (i + 3) \in {4, 5} /\ Boundary(s, d + 1)
     THEN d ELSE i - 1
SqlstateEnd(s, i) ==
  LET a == RunEnd(s, i + 8, SpaceCh) + 1
  IN IF /\ StartsWithAtI(s, i, "sqlstate")
        /\ \A k \in a..(a + 4) : At(s, k) \in AlnumCh
        /\ Boundary(s, a + 5)
     THEN a + 4 ELSE i - 1
HttpEnd(s, i) ==
  LET a == RunEnd(s, i + 4, SpaceCh) + 1
  IN IF /\ StartsWithAtI(s, i, "http")
        /\ At(s, a) \in {"1", "2", "3", "4", "5"}
        /\ At(s, a + 1) \in Digit /\ At(s, a + 2) \in Digit
        /\ Boundary(s, a + 3)
     THEN a + 2 ELSE i - 1
PrefixedEnd(s, i) ==
  LET l == RunEnd(s, i, Alpha)
      d == RunEnd(s, l + 2, Digit)
  IN IF /\ l - i + 1 \in 2..5
        /\ At(s, l + 1) = "-"
        /\ d - (l + 1) \in 3..5
        /\ Boundary(s, d + 1)
     THEN d ELSE i - 1
CodeEnd(s, i) ==
  IF ~Boundary(s, i) THEN i - 1
  ELSE IF OraEnd(s, i) >= i THEN OraEnd(s, i)
  ELSE IF SqlstateEnd(s, i) >= i THEN SqlstateEnd(s, i)
  ELSE IF HttpEnd(s, i) >= i THEN HttpEnd(s, i)
  ELSE PrefixedEnd(s, i)

\* ERROR_CODE_PAT.search(q): the text of the first match, "" for None.
ERROR_CODE_PAT(q) ==
  Assign(Matches(CodeEnd, q, 1), LAMBDA ms :
    IF ms = <<>> THEN "" ELSE SubSeq(q, ms[1][1], ms[1][2]))

\* UI_VISIBILITY_RE.search(s)
UI_VISIBILITY_RE(s) ==
  SearchPhrases(s, {<<"option">>, <<"options">>, <<"menu">>, <<"button">>,
                    <<"tab">>, <<"checkbox">>, <<"not", "present">>,
                    <<"not", "visible">>, <<"not", "found">>, <<"missing">>,
                    <<"disabled">>, <<"hidden">>})

GENERIC_WORDS ==
  {"introduction", "overview", "general", "faq", "guide", "tips",
   "troubleshooting", "how to", "index", "contents"}

\* The first position of character c in s at or after i (0: none).
FindCh(s, i, c) ==
  LET at == {k \in i..Len(s) : Ch(s, k) = c}
  IN IF at = {} THEN 0 ELSE CHOOSE a \in at : \A b \in at : a <= b

\* "([^"]+)"
QuotedEnd(s, i) ==
  IF Ch(s, i) = "\"" /\ FindCh(s, i + 1, "\"") > i + 1
  THEN FindCh(s, i + 1, "\"") ELSE i - 1

\* \b[A-Za-z0-9_./:-]{3,}\b
CodeyCh == AlnumCh \cup {"_", ".", "/", ":", "-"}
CodeyEnd(s, i) ==
  LET r == RunEnd(s, i, CodeyCh)
      ends == {e \in (i + 2)..r : Boundary(s, e + 1)}
  IN IF Boundary(s, i) /\ ends # {}
     THEN CHOOSE e \in ends : \A f \in ends : f <= e
     ELSE i - 1

\* re.search(r"[A-Z]{2,}-\d{2,}|ORA-\d{4,5}|SQLSTATE|HTTP\s*[1-5]\d{2}", t)
LooksLikeCode(t) ==
  \E i \in 1..Len(t) :
     \/ /\ At(t, i) \in Upper /\ At(t, i + 1) \in Upper /\ At(t, i + 2) = "-"
        /\ At(t, i + 3) \in Digit /\ At(t, i + 4) \in Digit
     \/ /\ StartsWithAt(t, i, "ORA-")
        /\ \A k \in (i + 4)..(i + 7) : At(t, k) \in Digit
     \/ StartsWithAt(t, i, "SQLSTATE")
     \/ /\ StartsWithAt(t, i, "HTTP")
        /\ LET a == RunEnd(t, i + 4, SpaceCh) + 1
           IN /\ At(t, a) \in {"1", "2", "3", "4", "5"}
              /\ At(t, a + 1) \in Digit /\ At(t, a + 2) \in Digit

\* list(dict.fromkeys(xs))
Dedupe(xs) ==
  LET First(i) == \A j \in 1..(i - 1) : xs[j] # xs[i]
      firsts == SelectSeq([i \in 1..Len(xs) |-> i], First)
  IN [k \in 1..Len(firsts) |-> xs[firsts[k]]]

\* _extract_query_spans(q), lines 1168-1176.
_extract_query_spans(q) ==
  LET Text(m) == SubSeq(q, m[1], m[2])
      Inner(m) == strip(SubSeq(q, m[1] + 1, m[2] - 1))
      LongEnough(x) == Len(x) >= 3
  IN Assign(Scan(QuotedEnd, q, 1), LAMBDA quotes :
     Assign(SelectSeq(MapSeq(Inner, quotes), LongEnough), LAMBDA quoted :
     Assign(Matches(CodeyEnd, q, 1), LAMBDA codes :
     Assign(SelectSeq(MapSeq(Text, codes), LooksLikeCode), LAMBDA codey :
       Dedupe(quoted \o codey)))))

\* The penalty taken from every title, generic or not.
AnyTitlePenalty(title) == 10000
\* _title_generic_penalty(title), lines 1178-1180.
_title_generic_penalty(title) ==
  IF ContainsAny(lower(title), GENERIC_WORDS) THEN 10000 ELSE 0

\* A score that is returned as it stands, where line 1227 bounds it.
Unclamped(x) == x
\* max(0.0, min(1.0, x)), line 1227.
Clamp01(x) == Max(0, Min(One, x))

\* score_row_against_query(row, query, page_title), lines 1182-1227.
score_row_against_query(row, query, page_title) ==
  Assign(strip(query), LAMBDA q :
  Assign(lower(q), LAMBDA ql :
  Assign(lower(row.error), LAMBDA err :
  Assign(lower(row.text), LAMBDA txt :
  Assign(lower(ERROR_CODE_PAT(q)), LAMBDA m :
  Assign(IF ~conf.ERROR_ROW_HARDMATCH THEN 0
         ELSE IF err # "" /\ ql # "" /\ (Contains(err, ql) \/ Contains(ql, err))
         THEN One
         ELSE IF m # "" /\ (Contains(err, m) \/ Contains(txt, m)) THEN 95000
         ELSE 0, LAMBDA hard :
  Assign(520 * partial_ratio(ql, err, lib.p_err)
         + 200 * token_set_ratio(ql, err, lib.t_err)
         + 180 * partial_ratio(ql, txt, lib.p_txt)
         + 100 * token_set_ratio(ql, txt, lib.t_txt), LAMBDA fuzzy :
  Assign(lower(page_title), LAMBDA tl :
  Assign(_extract_query_spans(q), LAMBDA spans :
    LET InRow(span) == LET sp == lower(span)
                       IN sp # "" /\ (Contains(err, sp) \/ Contains(txt, sp))
        base == Max(hard, fuzzy)
                + (IF row.remedy # ""
                   THEN 8000 + (IF Len(row.remedy) > 120 THEN 3000 ELSE 0)
                   ELSE 0)
                + (IF page_title # "" /\ ContainsAny(tl, conf.ERROR_TITLE_HINTS)
                   THEN conf.ERROR_PAGE_BIAS ELSE 0)
                + (IF UI_VISIBILITY_RE(ql) /\ (UI_VISIBILITY_RE(txt) \/ UI_VISIBILITY_RE(err))
                   THEN 8000 ELSE 0)
                + 5000 * Len(SelectSeq(spans, InRow))
                + (IF page_title # "" THEN 40 * partial_ratio(ql, tl, lib.p_title) ELSE 0)
                - _title_generic_penalty(page_title)
    IN Clamp01(base))))))))))

\* The textbook idf, log((N - n + 0.5) / (n + 0.5)), without the 1 that line
\* 636 adds inside the logarithm.
BM25_idf_classic(N, n_qi) ==
  IF N = 0 THEN 0 ELSE LnTable[2 * (N - n_qi) + 1] - LnTable[2 * n_qi + 1]

\* BM25.idf, lines 634-636, for an index of N documents of which n_qi hold
\* the term: log(1 + (N - n + 0.5) / (n + 0.5)) = log((2N + 2) / (2n + 1)).
BM25_idf(N, n_qi) ==
  IF N = 0 THEN 0 ELSE LnTable[2 * N + 2] - LnTable[2 * n_qi + 1]

\* The document frequency of term t in the index over docs (line 631).
BM25_df(docs, t) == Cardinality({i \in DOMAIN docs : t \in Range(docs[i])})

\* BM25.score(q_tokens, doc_idx) of the index over the token lists docs,
\* lines 637-645, doc_idx from 0 and inside the index: k1 = 1.5 and b = 0.75,
\* so that a term that occurs f times contributes
\* idf * 2.5 f / (f + 0.375 + 1.125 dl / avgdl).
BM25_score_docs(docs, q_tokens, doc_idx) ==
  Assign([i \in DOMAIN docs |-> Len(docs[i])], LAMBDA doc_len :
  Assign(SumSeq(doc_len), LAMBDA total :
    LET num == IF total = 0 THEN 1 ELSE total   \* avgdl = num / den, or 1
        den == IF total = 0 THEN 1 ELSE Len(docs)
        dl == IF doc_len[doc_idx + 1] = 0 THEN 1 ELSE doc_len[doc_idx + 1]
        Term(t) ==
          Assign(Count(docs[doc_idx + 1], t), LAMBDA f :
            IF f = 0 THEN 0
            ELSE (BM25_idf(Len(docs), BM25_df(docs, t)) * f * 20 * num)
                   \div (8 * f * num + 3 * num + 9 * dl * den))
    IN SumSeq(MapSeq(Term, q_tokens))))

\* The same for a BM25 object of the index: its documents are the first N
\* elements of the list it was built over.
BM25_score(bm, q_tokens, doc_idx) ==
  BM25_score_docs([i \in 1..bm.N |->
                    ItemTokens(heap[bm.docs_tokens[1]][bm.docs_tokens[2]][i])],
                  q_tokens, doc_idx)

\* A sort that puts the later of two equal elements first.
SortDescUnstable(xs) ==
  LET Rank(i) == Cardinality({j \in DOMAIN xs :
                                \/ xs[j][1] > xs[i][1]
                                \/ xs[j][1] = xs[i][1] /\ j >= i})
  IN [r \in 1..Len(xs) |-> xs[CHOOSE i \in DOMAIN xs : Rank(i) = r]]

\* xs.sort(key=lambda x: x[0], reverse=True): stable, greatest first.
SortDesc(xs) ==
  LET Rank(i) == Cardinality({j \in DOMAIN xs :
                                \/ xs[j][1] > xs[i][1]
                                \/ xs[j][1] = xs[i][1] /\ j <= i})
  IN [r \in 1..Len(xs) |-> xs[CHOOSE i \in DOMAIN xs : Rank(i) = r]]

\* The list cands of get_row_candidates(query) before it is sorted, lines
\* 1230-1239: (score, index, item) for each row of KB_ROWS.
RowCandidates(query) ==
  LET items == heap.rows[KB_ROWS]
  IN Assign(tokenize(query), LAMBDA q_tokens :
     Assign(lower(query), LAMBDA ql :
       LET Cand(i) ==
             LET page_title == ItemTitle(items[i])
             IN Assign(score_row_against_query(ItemRow(items[i]), query, page_title),
                       LAMBDA sc :
                Assign(IF ROW_BM25 # None /\ i - 1 < Len(heap.row_tokens[ROW_TOKENS])
                       THEN (9 * sc) \div 10
                            + BM25_score(ROW_BM25, q_tokens, i - 1) \div 10
                       ELSE sc, LAMBDA blended :
                  <<blended + (IF page_title # ""
                               THEN 50 * partial_ratio(ql, lower(page_title), lib.p_title)
                               ELSE 0),
                    i - 1, items[i]>>))
       IN [i \in 1..Len(items) |-> Cand(i)]))

\* get_row_candidates(query, top_k), lines 1229-1241, run on its own.
get_row_candidates(query, top_k) ==
  Assign(RowCandidates(query), LAMBDA cands : Prefix(SortDesc(cands), top_k))

(***************************************************************************)
(* Synthesis: the LLM formatter, the section answer, answer_from_kb.       *)
(***************************************************************************)
\* The reply of an LLM that is there and answers whatever it is asked.
llm_chat_unasked(prompt) == "Reinstall the product."

\* llm_chat(prompt), lines 131-143: the stripped reply, "" when there is no
\* client or the call fails.
llm_chat(prompt) == strip(lib.llm)

\* lines 953-962: runs of command lines go into one fenced block each.
FenceCommands(lines) ==
  LET ln_stripped(i) == strip(lines[i])
      is_cmd(i) == SHELL_CMD_PAT(ln_stripped(i))
      Cmd(i) == IF startswith(ln_stripped(i), "$")
                THEN SubSeq(ln_stripped(i), RunEnd(ln_stripped(i), 2, SpaceCh) + 1,
                            Len(ln_stripped(i)))
                ELSE ln_stripped(i)
      Piece(i) ==
        IF is_cmd(i)
        THEN (IF i = 1 \/ ~is_cmd(i - 1) THEN <<Fence \o "bash">> ELSE <<>>)
             \o <<Cmd(i)>>
             \o (IF i = Len(lines) \/ ~is_cmd(i + 1) THEN <<Fence>> ELSE <<>>)
        ELSE <<lines[i]>>
  IN Flatten([i \in 1..Len(lines) |-> Piece(i)])

\* lines 930-968 and 1005-1041: what both synthesizers do with the reply.
Synthesized(raw) ==
  IF raw = "" THEN ""
  ELSE Assign(splitlines(raw), LAMBDA raw_lines :
       Assign(SelectSeq(MapSeq(rstrip, raw_lines), NotFiller), LAMBDA lines :
       Assign(FenceCommands(lines), LAMBDA out_lines :
       Assign(strip(join("\n", out_lines)), LAMBDA out :
       Assign(sanitize_output(out), LAMBDA sanitized :
         post_process_answer(sanitized))))))

\* synthesize_from_row(row, query), lines 890-968.
synthesize_from_row(row, query) ==
  Assign(llm_chat(<<row, query>>), LAMBDA raw : Synthesized(raw))

\* synthesize_from_chunks(query, chunks), lines 972-1041.
synthesize_from_chunks(query, chunks) ==
  Assign(llm_chat(<<query, chunks>>), LAMBDA raw : Synthesized(raw))

\* (?<=[.!?])\s+
SentenceBreakEnd(s, i) ==
  IF At(s, i - 1) \in {".", "!", "?"} THEN RunEnd(s, i, SpaceCh) ELSE i - 1

NewlineToSpace(c) == IF c = "\n" THEN " " ELSE c

\* lines 1274-1277: the sentences of a chunk.
SentencesOf(chunk) ==
  Assign(MapFrom(NewlineToSpace, chunk, 1), LAMBDA ch_flat :
  Assign(Matches(SentenceBreakEnd, ch_flat, 1), LAMBDA breaks :
  Assign(SplitAt(ch_flat, 1, breaks), LAMBDA parts :
    MapSeq(strip, SelectSeq(parts, NonBlank)))))

\* re.search(r"[>/]|(menu|tab|button|field|checkbox)", s, flags=re.I)
UiHint(s) ==
  ContainsAny(lower(s), {">", "/", "menu", "tab", "button", "field", "checkbox"})

\* lines 1274-1300: the extractive answer from the chunks.
ExtractiveAnswer(q_tokens, chunks) ==
  LET qs == Range(q_tokens)
      Ranked(sent) ==
        Assign(tokenize(sent), LAMBDA stoks :
          LET overlap == Cardinality(qs \cap Range(stoks))
              density == IF stoks = <<>> THEN 0 ELSE (25000 * overlap) \div Len(stoks)
          IN <<60000 * overlap + density
                 + (IF STEP_VERB_RE(sent) THEN 10000 ELSE 0)
                 + (IF UiHint(sent) THEN 5000 ELSE 0),
               sent>>)
      Second(x) == x[2]
      StepLike(x) == STEP_VERB_RE(x[2])
  IN Assign(Flatten(MapSeq(SentencesOf, chunks)), LAMBDA sentences :
     Assign(SortDesc(MapSeq(Ranked, sentences)), LAMBDA ranked :
     Assign(MapSeq(Second, SelectSeq(SubSeq(ranked, 2, Min(60, Len(ranked))), StepLike)),
            LAMBDA step_candidates :
     Assign(SliceTo(step_candidates, Min(5, conf.PINPOINT_MAX_STEPS)), LAMBDA steps :
     Assign(IF ranked = <<>> THEN <<>>
            ELSE <<"Resolution for: " \o ranked[1][2], "\nDo this:">>
                 \o [i \in 1..Len(steps) |-> str(i) \o ". " \o steps[i]], LAMBDA out :
     Assign(sanitize_output(strip(join("\n", out))), LAMBDA sanitized :
       post_process_answer(sanitized)))))))

\* answer_sections(query), lines 1243-1300, run on its own: <<answer, sources>>
\* and, third, the chunks the answer was made from.
answer_sections(query) ==
  LET secs == heap.sections[KB_SECTIONS]
      Index(x) == x[2]
      Chunk(i) == strip(Prefix(ItemText(secs[i + 1]), 700))
      Source(i) == [title |-> ItemTitle(secs[i + 1]), url |-> ItemUrl(secs[i + 1])]
  IN Assign(tokenize(query), LAMBDA q_tokens :
     Assign(lower(query), LAMBDA ql :
       LET Scored(idx) ==
             LET bm == IF SECTION_BM25 # None
                       THEN BM25_score(SECTION_BM25, q_tokens, idx - 1) ELSE 0
                 tl == lower(ItemTitle(secs[idx]))
             IN <<(85 * bm) \div 100 + 150 * partial_ratio(ql, tl, lib.p_title)
                    + (IF ContainsAny(tl, conf.ERROR_TITLE_HINTS)
                       THEN (7 * conf.ERROR_PAGE_BIAS) \div 10 ELSE 0),
                  idx - 1>>
       IN Assign(SortDesc([idx \in 1..Len(secs) |-> Scored(idx)]), LAMBDA scored :
          LET pseudo == scored = <<>> /\ heap.pages[KB_PAGES] # <<>>
              p0 == get_page_content(heap.pages[KB_PAGES][1])
              top == MapSeq(Index, SliceTo(scored, conf.MAX_SECTIONS))
              FirstOfTitle(k) ==
                \A j \in 1..(k - 1) : Source(top[j]).title # Source(top[k]).title
              SourceAt(k) == Source(top[k])
          IN Assign(IF pseudo THEN <<Prefix(strip(p0.text), 800)>>
                    ELSE MapSeq(Chunk, top), LAMBDA chunks :
             Assign(IF pseudo THEN <<[title |-> p0.title, url |-> p0.url]>>
                    ELSE Prefix(MapSeq(SourceAt, SelectSeq([k \in 1..Len(top) |-> k],
                                                           FirstOfTitle)),
                                Max(conf.MAX_SOURCES_PER_ANSWER, 0)), LAMBDA sources :
             Assign(synthesize_from_chunks(query, chunks), LAMBDA llm_txt :
               IF llm_txt # ""
               THEN Assign(sanitize_output(llm_txt), LAMBDA sanitized :
                      <<post_process_answer(sanitized), sources, chunks, scored>>)
               ELSE <<ExtractiveAnswer(q_tokens, chunks), sources, chunks, scored>>))))))

\* re.sub(r"[^\w\s:/.-]", " ", query), one character at a time.
QueryCh(c) == IF c \in WordCh \cup SpaceCh \cup {":", "/", ".", "-"} THEN c ELSE " "

\* A gate with the floor fixed at 0.90, whatever ROW_SCORE_MIN is.
FloorNinety(candidates) == candidates # <<>> /\ candidates[1][1] >= 90000
\* A gate that lets the best candidate through whatever its score.
AnyCandidate(candidates) == candidates # <<>>
\* line 1306: there is a candidate and the best one reaches ROW_SCORE_MIN.
RowGate(candidates) ==
  candidates # <<>> /\ candidates[1][1] >= conf.ROW_SCORE_MIN

\* A miss reported with a text of apology.
NoMatchApology == [matched |-> FALSE, answer |-> "Sorry, nothing found.", sources |-> <<>>]
\* line 1325: return False, "", []
NoMatch == [matched |-> FALSE, answer |-> "", sources |-> <<>>]

\* answer_from_kb(query), lines 1302-1325, run on its own.  Next to the
\* returned (matched, answer, sources): via tells which branch returned,
\* ranked whether answer_sections was called, scores are the scores of the
\* candidates from the best on, item is the row answered from, chunks are
\* the section texts answered from and scored is the ranking of the sections
\* (score, index) from the best on.
answer_from_kb(query) ==
  Assign(strip(MapFrom(QueryCh, query, 1)), LAMBDA q :
  Assign(get_row_candidates(q, 12), LAMBDA candidates :
  Assign([i \in DOMAIN candidates |-> candidates[i][1]], LAMBDA scores :
    IF RowGate(candidates)
    THEN Assign(candidates[1][3], LAMBDA item0 :
         Assign(ItemRow(item0), LAMBDA row :
         Assign(IF conf.STRICT_REMEDY_ONLY /\ strip(row.remedy) # ""
                THEN format_row_better(row)
                ELSE Assign(synthesize_from_row(row, q), LAMBDA synthesized :
                     Assign(IF synthesized # "" THEN synthesized
                            ELSE format_row_better(row), LAMBDA txt :
                       sanitize_output(txt))), LAMBDA txt :
           [matched |-> TRUE, answer |-> post_process_answer(txt),
            sources |-> <<[title |-> ItemTitle(item0), url |-> ItemUrl(item0)]>>,
            via |-> "row", ranked |-> FALSE, scores |-> scores, item |-> item0,
            chunks |-> <<>>, scored |-> <<>>])))
    ELSE IF heap.sections[KB_SECTIONS] # <<>>
    THEN Assign(answer_sections(q), LAMBDA sections :
           IF strip(sections[1]) # ""
           THEN [matched |-> TRUE, answer |-> sections[1], sources |-> sections[2],
                 via |-> "sections", ranked |-> TRUE, scores |-> scores, item |-> None,
                 chunks |-> sections[3], scored |-> sections[4]]
           ELSE NoMatch @@ [via |-> "none", ranked |-> TRUE, scores |-> scores,
                            item |-> None, chunks |-> sections[3],
                            scored |-> sections[4]])
    ELSE NoMatch @@ [via |-> "none", ranked |-> FALSE, scores |-> scores, item |-> None,
                     chunks |-> <<>>, scored |-> <<>>])))

\* What the crawl collaborator can return, the site changing between crawls:
\* no page, one page (its reference listed twice), or several pages.
CrawlResults == {<<>>, <<1, 1>>} \cup {<<1, p>> : p \in PageIds \ {1}}

\* BM25.__init__(docs_tokens): the object keeps the list it was given (kind
\* and reference) and the statistics of the N documents the list held then;
\* lists only grow, so these are the statistics of its first N elements.
BM25(kind, ref) == [docs_tokens |-> <<kind, ref>>, N |-> Len(heap[kind][ref])]

\* The defaults of lines 84-103; scores in units of 1/One.
DefaultConf ==
  [MAX_SECTIONS |-> 1,
   MAX_ANSWER_CHARS |-> -1,
   ROW_SCORE_MIN |-> 92000,
   PINPOINT_MAX_STEPS |-> 5,
   MAX_SOURCES_PER_ANSWER |-> 1,
   ERROR_TITLE_HINTS |-> {"error", "errors", "solution", "solutions", "catalog"},
   ERROR_PAGE_BIAS |-> 18000,
   ERROR_ROW_HARDMATCH |-> TRUE,
   STRICT_REMEDY_ONLY |-> TRUE]

NoCall == [fn |-> "none"]

EmptyHeap ==
  [kind \in {"pages", "sections", "section_tokens", "rows", "row_tokens"} |->
     [r \in Refs |-> <<>>]]

IdleBuild == [pc |-> "idle", refs |-> <<>>, it |-> 0, i |-> 0, j |-> 0]
NoGen == -1
IdleQuery == [pc |-> "idle", it |-> 0, i |-> 0, gen |-> NoGen,
              torn |-> FALSE, matched |-> FALSE]

\* The browsers and the threads that serve their posts.
MaxClients == 1
MaxHandlers == 2
Clients == 1..MaxClients
Handlers == 1..MaxHandlers

IdleHandler == [pc |-> "idle"]

\* Nobody has visited yet: no store file, no session cookie, no request.
Unvisited ==
  /\ store_file = None
  /\ session = [c \in Clients |-> ""]
  /\ handler = [h \in Handlers |-> IdleHandler]

\* The state after import: empty lists, no index, and the thread that
\* line 1130 starts on _build_bg.
ImportedIndex ==
  /\ KB_PAGES = 0 /\ KB_SECTIONS = 0 /\ KB_SECTION_TOKENS = 0
  /\ KB_ROWS = 0 /\ ROW_TOKENS = 0
  /\ SECTION_BM25 = None /\ ROW_BM25 = None
  /\ site = Derived
  /\ heap = EmptyHeap
  /\ build = [b \in Builders |-> IF b = 1 THEN [IdleBuild EXCEPT !.pc = "reset"]
                                          ELSE IdleBuild]
  /\ request = [q \in Queriers |-> IdleQuery]
  /\ call = NoCall

Imported == Unvisited /\ ImportedIndex

\* The shipped configuration, and libraries that see no similarity and have
\* no LLM to ask.
Init ==
  /\ conf = DefaultConf
  /\ lib = [p_err |-> 0, t_err |-> 0, p_txt |-> 0, t_txt |-> 0, p_title |-> 0,
            llm |-> ""]
  /\ Imported

(***************************************************************************)
(* reload_kb: the handler starts a thread on preload_knowledge and         *)
(* returns, whatever the other threads are doing.                          *)
(***************************************************************************)
reload_kb(b) ==
  /\ build[b].pc = "idle"
  /\ \A c \in Builders : c < b => build[c].pc # "idle"
  /\ build' = [build EXCEPT ![b].pc = "reset"]
  /\ UNCHANGED <<env, web, call, globals, heap, request>>

(***************************************************************************)
(* preload_knowledge, one step per statement or loop iteration.            *)
(***************************************************************************)
\* lines 1079-1080: the globals are bound to fresh empty lists.
preload_reset(b) ==
  /\ build[b].pc = "reset"
  /\ KB_PAGES' = b /\ KB_SECTIONS' = b /\ KB_SECTION_TOKENS' = b
  /\ KB_ROWS' = b /\ ROW_TOKENS' = b
  /\ heap' = [kind \in DOMAIN heap |-> [heap[kind] EXCEPT ![b] = <<>>]]
  /\ build' = [build EXCEPT ![b].pc = "crawl"]
  /\ UNCHANGED <<env, web, call, SECTION_BM25, ROW_BM25, request>>

\* lines 1082-1092: the page references of the configured crawl (with none,
\* the loop of line 1095 has no iteration and line 1110 is next).
Crawled(b, refs) ==
  IF refs = <<>>
  THEN [build EXCEPT ![b].pc = "sections", ![b].it = KB_PAGES, ![b].i = 0, ![b].j = 0]
  ELSE [build EXCEPT ![b].pc = "pages", ![b].refs = refs, ![b].i = 0]

preload_crawl(b, listings) ==
  /\ build[b].pc = "crawl"
  /\ \E refs \in listings : build' = Crawled(b, refs)
  /\ UNCHANGED <<env, web, call, globals, heap, request>>

\* A rebuild that skips no page.
SkipsNothing(refs, n) == FALSE
\* lines 1097-1102: the page of refs[n] is skipped when its id was seen
\* before, when it could not be fetched, and when it has no text and no
\* markup.
Skips(refs, n) ==
  \/ \E m \in 1..(n - 1) : refs[m] = refs[n]
  \/ get_page_content(refs[n]).error
  \/ /\ strip(get_page_content(refs[n]).text) = ""
     /\ ~get_page_content(refs[n]).html.markup

\* lines 1094-1108: one iteration of the loop over refs; a page id already
\* seen, a page that could not be fetched and a page without text and markup
\* are skipped, the others are appended to the list KB_PAGES is bound to.
preload_page(b) ==
  /\ build[b].pc = "pages"
  /\ LET s == build[b]
         n == s.i + 1
     IN /\ build' = IF n = Len(s.refs)
                    THEN [build EXCEPT ![b].pc = "sections", ![b].refs = <<>>,
                                       ![b].it = KB_PAGES, ![b].i = 0, ![b].j = 0]
                    ELSE [build EXCEPT ![b].i = n]
        /\ heap' = IF Skips(s.refs, n)
                    THEN heap
                    ELSE [heap EXCEPT !.pages[KB_PAGES] = Append(@, s.refs[n])]
  /\ UNCHANGED <<env, web, call, globals, request>>

\* lines 1110-1116: one append of the loops over the pages list (the object
\* bound when the loop started) and over a page's sections; once the list is
\* exhausted, SECTION_BM25 = BM25(KB_SECTION_TOKENS) if KB_SECTIONS else None.
preload_section(b) ==
  /\ build[b].pc = "sections"
  /\ LET s == build[b]
         pages == heap.pages[s.it]
     IN IF s.i + 1 > Len(pages)
        THEN /\ SECTION_BM25' = IF heap.sections[KB_SECTIONS] # <<>>
                                THEN BM25("section_tokens", KB_SECTION_TOKENS)
                                ELSE None
             /\ build' = [build EXCEPT ![b].pc = "rows", ![b].it = KB_PAGES,
                                       ![b].i = 0, ![b].j = 0]
             /\ heap' = heap
        ELSE LET secs == SectionItems(pages[s.i + 1])
                 k == s.j + 1
             IN /\ heap' = [heap EXCEPT
                      !.sections[KB_SECTIONS] = Append(@, secs[k]),
                      !.section_tokens[KB_SECTION_TOKENS] = Append(@, secs[k])]
                /\ build' = IF k = Len(secs)
                            THEN [build EXCEPT ![b].i = s.i + 1, ![b].j = 0]
                            ELSE [build EXCEPT ![b].j = k]
                /\ SECTION_BM25' = SECTION_BM25
  /\ UNCHANGED <<env, web, call, KB_PAGES, KB_SECTIONS, KB_SECTION_TOKENS, KB_ROWS,
                 ROW_TOKENS, ROW_BM25, request>>

\* lines 1118-1125: one append of the loops over the pages and their rows;
\* once the list is exhausted, ROW_BM25 = BM25(ROW_TOKENS) if KB_ROWS else None
\* and the rebuild is over.
preload_row(b) ==
  /\ build[b].pc = "rows"
  /\ LET s == build[b]
         pages == heap.pages[s.it]
     IN IF s.i + 1 > Len(pages)
        THEN /\ ROW_BM25' = IF heap.rows[KB_ROWS] # <<>>
                            THEN BM25("row_tokens", ROW_TOKENS)
                            ELSE None
             /\ build' = [build EXCEPT ![b] = [IdleBuild EXCEPT !.pc = "done"]]
             /\ heap' = heap
        ELSE LET rows == RowItems(pages[s.i + 1])
                 k == s.j + 1
             IN /\ ROW_BM25' = ROW_BM25
                /\ IF rows = <<>>
                   THEN /\ heap' = heap
                        /\ build' = [build EXCEPT ![b].i = s.i + 1, ![b].j = 0]
                   ELSE /\ heap' = [heap EXCEPT
                              !.rows[KB_ROWS] = Append(@, rows[k]),
                              !.row_tokens[ROW_TOKENS] = Append(@, rows[k])]
                        /\ build' = IF k = Len(rows)
                                    THEN [build EXCEPT ![b].i = s.i + 1, ![b].j = 0]
                                    ELSE [build EXCEPT ![b].j = k]
  /\ UNCHANGED <<env, web, call, KB_PAGES, KB_SECTIONS, KB_SECTION_TOKENS, SECTION_BM25,
                 KB_ROWS, ROW_TOKENS, request>>

preload_knowledge(b, listings) ==
  \/ preload_reset(b)
  \/ preload_crawl(b, listings)
  \/ preload_page(b)
  \/ preload_section(b)
  \/ preload_row(b)

(***************************************************************************)
(* answer_from_kb as a request thread runs it over the globals, one step   *)
(* per loop iteration.  Scores are left open here (SpecAnswer computes     *)
(* them); what is kept is every read of a global, and every list index.    *)
(***************************************************************************)
\* A rebuild's lists are complete once it has published everything; the
\* empty lists of the import are.
Complete(ref) == ref = 0 \/ build[ref].pc = "done"

\* The request after reading the objects refs: the generation it read first,
\* and whether it has since read an object of another generation, or one that
\* was still being filled.
Observe(s, refs) ==
  LET first == IF s.gen = NoGen /\ refs # {}
               THEN CHOOSE r \in refs : \A o \in refs : r <= o
               ELSE s.gen
  IN [s EXCEPT !.gen = first,
               !.torn = @ \/ \E r \in refs : r # first \/ ~Complete(r)]

\* BM25.score(q_tokens, doc_idx), lines 637-645: self.doc_len[doc_idx] raises
\* IndexError when doc_idx is not a position of the index (doc_idx from 0).
BM25_score_raises(bm, doc_idx) == doc_idx >= bm.N

\* The request ends: with (matched, answer, sources), or with the exception.
Return(s, matched) == [s EXCEPT !.pc = "done", !.matched = matched,
                                !.it = 0, !.i = 0]
Raise(s) == [s EXCEPT !.pc = "raised", !.it = 0, !.i = 0]

\* line 1304 and line 1232: get_row_candidates starts its loop over the list
\* KB_ROWS is bound to.
request_start(q) ==
  /\ request[q].pc \in {"idle", "done", "raised"}
  /\ request' = [request EXCEPT ![q] =
       Observe([IdleQuery EXCEPT !.pc = "rows", !.it = KB_ROWS], {KB_ROWS})]
  /\ UNCHANGED <<env, web, call, globals, heap, build>>

\* lines 1232-1239: one iteration of the loop of get_row_candidates; after
\* the last, lines 1240-1241 and the test of line 1306 (the winner's score
\* reaches ROW_SCORE_MIN or not), then the test of line 1320.
request_row(q) ==
  /\ request[q].pc = "rows"
  /\ LET s == request[q]
         rows == heap.rows[s.it]
     IN IF s.i < Len(rows)
        THEN LET scored == ROW_BM25 # None /\ s.i < Len(heap.row_tokens[ROW_TOKENS])
                 t == Observe(s, {ROW_TOKENS} \cup
                        (IF ROW_BM25 # None THEN {ROW_BM25.docs_tokens[2]} ELSE {}))
             IN request' = [request EXCEPT ![q] =
                            IF scored /\ BM25_score_raises(ROW_BM25, s.i)
                            THEN Raise(t)
                            ELSE [t EXCEPT !.i = s.i + 1]]
        ELSE \E reaches \in BOOLEAN :
               LET t == Observe(s, {KB_SECTIONS})
               IN request' = [request EXCEPT ![q] =
                    IF s.i > 0 /\ reaches
                    THEN Return(s, TRUE)
                    ELSE IF heap.sections[KB_SECTIONS] # <<>>
                    THEN [t EXCEPT !.pc = "sections", !.it = KB_SECTIONS, !.i = 0]
                    ELSE Return(t, FALSE)]
  /\ UNCHANGED <<env, web, call, globals, heap, build>>

\* lines 1247-1254: one iteration of the loop of answer_sections.  After the
\* last, lines 1255-1268 and 1322: the pseudo-section of the first page when
\* nothing was scored, else the best section, read again through KB_SECTIONS
\* (IndexError when the list bound by then is shorter); MAX_SECTIONS = 1.
request_section(q) ==
  /\ request[q].pc = "sections"
  /\ LET s == request[q]
         secs == heap.sections[s.it]
     IN IF s.i < Len(secs)
        THEN LET t == Observe(s, IF SECTION_BM25 # None
                                 THEN {SECTION_BM25.docs_tokens[2]} ELSE {})
             IN request' = [request EXCEPT ![q] =
                            IF SECTION_BM25 # None
                               /\ BM25_score_raises(SECTION_BM25, s.i)
                            THEN Raise(t)
                            ELSE [t EXCEPT !.i = s.i + 1]]
        ELSE IF s.i = 0
        THEN \E nonblank \in BOOLEAN :
               request' = [request EXCEPT ![q] =
                 Return(Observe(s, {KB_PAGES}),
                        nonblank /\ heap.pages[KB_PAGES] # <<>>)]
        ELSE \E top \in 0..(s.i - 1), nonblank \in BOOLEAN :
               LET t == Observe(s, {KB_PAGES, KB_SECTIONS})
               IN request' = [request EXCEPT ![q] =
                    IF top >= Len(heap.sections[KB_SECTIONS])
                    THEN Raise(t)
                    ELSE Return(t, nonblank)]
  /\ UNCHANGED <<env, web, call, globals, heap, build>>

answer_from_kb_thread(q) ==
  \/ request_start(q)
  \/ request_row(q)
  \/ request_section(q)

Next ==
  \/ \E b \in Builders : reload_kb(b)
  \/ \E b \in Builders : preload_knowledge(b, CrawlResults)
  \/ \E q \in Queriers : answer_from_kb_thread(q)

Spec == Init /\ [][Next]_vars

(***************************************************************************)
(* Claims about the index under concurrent rebuilds and requests (Spec).   *)
(***************************************************************************)
Running(b) == build[b].pc \notin {"idle", "done"}

\* C1: a request that runs while a rebuild is in progress reads the complete
\* old generation or the complete new one: everything it reads belongs to
\* one generation, and that generation was complete when it was read.
C1_QuerySeesOneCompleteGeneration ==
  \A q \in Queriers : ~request[q].torn

\* C2: a reload that arrives while a rebuild is running is coalesced or
\* queued: no two executions of preload_knowledge run at the same time.
C2_NoTwoRebuildsAtOnce ==
  \A b, c \in Builders : Running(b) /\ Running(c) => b = c

\* C3: answer_from_kb never raises: every position passed to BM25.score is a
\* position of the index that scores it, and every section picked exists.
C3_AnswerNeverRaises ==
  \A q \in Queriers : request[q].pc # "raised"

(***************************************************************************)
(* SpecScore: the scoring functions called on their own, one call per run, *)
(* under every configuration of the scorer and several answers of the      *)
(* fuzzy-matching library.                                                 *)
(***************************************************************************)
MaxDocs == 3        \* documents of an index built for a direct BM25.score call
MaxCorpus == 12     \* documents of an index asked for an idf

Ratios(a, b, c, d, e) ==
  [p_err |-> a, t_err |-> b, p_txt |-> c, t_txt |-> d, p_title |-> e, llm |-> ""]
ScoreLibs ==
  {Ratios(0, 0, 0, 0, 0), Ratios(100, 100, 100, 100, 100), Ratios(90, 40, 70, 30, 50)}
ScoreConfs ==
  {[DefaultConf EXCEPT !.ERROR_ROW_HARDMATCH = h, !.ERROR_PAGE_BIAS = b] :
     h \in BOOLEAN, b \in {18000, 0, -25000}}

\* A row whose remedy is longer than 120 characters (line 1210).
LongRemedy ==
  "Stop the service. Clear the temporary files under the data directory. "
  \o "Start the service again and wait until the status page is green."
LongRow ==
  [error |-> "Disk full", cause |-> "", remedy |-> LongRemedy, suggestions |-> "",
   text |-> "Disk full " \o LongRemedy]
ScoreRows == UNION {Range(site[p].rows) : p \in DOMAIN site} \cup {LongRow}
ScoreTitles == {"", "Error Catalog", "FAQ", "Network", "Access Errors"}
ScoreQueries ==
  {"", "  ", "hello", "ORA-12154", "I'm getting ORA-12154", "Listener down",
   "Login failed", "Export button missing", "the export button is hidden",
   "Disk full"}

DocPool == {<<>>, <<"tns">>, <<"listener">>, <<"tns", "listener", "tns">>}
RECURSIVE SeqsUpTo(_, _)
SeqsUpTo(S, n) ==
  IF n = 0 THEN {<<>>}
  ELSE LET shorter == SeqsUpTo(S, n - 1)
       IN shorter \cup {Append(xs, x) : xs \in {ys \in shorter : Len(ys) = n - 1}, x \in S}
Corpora == SeqsUpTo(DocPool, MaxDocs)
QueryTokens == {<<>>, <<"tns">>, <<"listener", "tns">>, <<"missing">>}

InitScore ==
  /\ conf \in ScoreConfs
  /\ lib \in ScoreLibs
  /\ Imported

score_row_call ==
  /\ call = NoCall
  /\ \E row \in ScoreRows, query \in ScoreQueries, page_title \in ScoreTitles :
       call' = [fn |-> "score_row_against_query", row |-> row, query |-> query,
                page_title |-> page_title,
                ret |-> score_row_against_query(row, query, page_title)]
  /\ UNCHANGED <<env, web, globals, heap, build, request>>

\* BM25(docs).score(q_tokens, doc_idx): the value, or the IndexError of
\* line 638.
BM25_score_call ==
  /\ call = NoCall
  /\ \E docs \in Corpora, q_tokens \in QueryTokens, doc_idx \in 0..(MaxDocs - 1) :
       call' = IF BM25_score_raises([N |-> Len(docs)], doc_idx)
               THEN [fn |-> "BM25.score", docs |-> docs, q_tokens |-> q_tokens,
                     doc_idx |-> doc_idx, raised |-> TRUE, ret |-> 0]
               ELSE [fn |-> "BM25.score", docs |-> docs, q_tokens |-> q_tokens,
                     doc_idx |-> doc_idx, raised |-> FALSE,
                     ret |-> BM25_score_docs(docs, q_tokens, doc_idx)]
  /\ UNCHANGED <<env, web, globals, heap, build, request>>

\* BM25.idf(term) in an index of N documents, n_qi of which hold the term.
BM25_idf_call ==
  /\ call = NoCall
  /\ \E N \in 0..MaxCorpus :
       \E n_qi \in 0..N :
         call' = [fn |-> "BM25.idf", N |-> N, n_qi |-> n_qi, ret |-> BM25_idf(N, n_qi)]
  /\ UNCHANGED <<env, web, globals, heap, build, request>>

NextScore ==
  \/ score_row_call
  \/ BM25_score_call
  \/ BM25_idf_call

SpecScore == InitScore /\ [][NextScore]_vars

\* A call of the row scorer with the row's own error text as the query.
Exact(c) == c.fn = "score_row_against_query" /\ c.query = c.row.error

\* C10: a query exactly equal to a row's error text scores at least 0.95,
\* for every row, page title and bias configuration.
C10_ExactErrorScoresHigh ==
  Exact(call) => call.ret >= 95000

\* C10, amended: with a bias that is not negative, such a query scores at
\* least 0.90, and at least 0.95 when the page title has no generic word.
C10_ExactErrorScoresHighUnlessGeneric ==
  Exact(call) /\ conf.ERROR_PAGE_BIAS >= 0 =>
    /\ call.ret >= 90000
    /\ ~ContainsAny(lower(call.page_title), GENERIC_WORDS) => call.ret >= 95000

C10_Witness ==
  /\ Exact(call) /\ conf.ERROR_PAGE_BIAS >= 0
  /\ ContainsAny(lower(call.page_title), GENERIC_WORDS)
  /\ call.ret >= 90000 /\ call.ret < 95000

\* C11: score_row_against_query returns a value in [0, 1], whatever the hard
\* match, the fuzzy base, the additions and the penalty come to.
C11_RowScoreInUnitInterval ==
  call.fn = "score_row_against_query" => call.ret >= 0 /\ call.ret <= One

\* A call whose sum exceeds 1 before line 1227: a hard match of 1.0, a remedy
\* and the bias of an error page.
C11_Witness ==
  /\ Exact(call) /\ conf.ERROR_ROW_HARDMATCH /\ conf.ERROR_PAGE_BIAS > 0
  /\ call.row.remedy # "" /\ call.page_title = "Error Catalog"
  /\ call.ret = One

\* C14: a scoring function returns 0.0, and does not raise, on degenerate
\* input: BM25.score on an empty corpus, with an empty query or on an empty
\* document, and score_row_against_query with an empty query.
C14_DegenerateInputScoresZero ==
  /\ call.fn = "BM25.score"
       /\ \/ call.docs = <<>>
          \/ call.q_tokens = <<>>
          \/ call.doc_idx < Len(call.docs) /\ call.docs[call.doc_idx + 1] = <<>>
     => ~call.raised /\ call.ret = 0
  /\ call.fn = "score_row_against_query" /\ strip(call.query) = ""
     => call.ret = 0

\* C16: in an index of N documents the idf of a term is not negative, and
\* is not greater than the idf of a term that fewer documents hold.
C16_IdfNonNegativeAndAntitone ==
  call.fn = "BM25.idf" =>
    /\ call.ret >= 0
    /\ \A fewer \in 0..call.n_qi : call.ret <= BM25_idf(call.N, fewer)

C16_Witness ==
  /\ call.fn = "BM25.idf" /\ call.N = MaxCorpus /\ call.n_qi = call.N
  /\ call.ret > 0 /\ call.ret < BM25_idf(call.N, call.N - 1)

(***************************************************************************)
(* SpecText: the text functions called on their own, one call per run.     *)
(***************************************************************************)
MaxDataRows == 2    \* data rows of a table handed to the table parser

\* Answer texts: an optional introduction, a numbered list, after some
\* separating lines possibly a second numbered list, and possibly notes.
Intros == {<<>>, <<"Do this:">>, <<"Restart it, or try reinstalling">>}
FirstLists ==
  {<<"1. Restart the listener", "2. Check the log">>,
   <<"1. Open Settings", "2. or try reinstalling", "3. Save">>,
   <<"1. or try reinstalling">>}
Separators == {<<"">>, <<"", "Alternative:">>, <<"or try reinstalling">>, <<"Then:">>}
SecondLists == {<<>>, <<"1. Reinstall the client", "2. Reboot">>, <<"1. Clear the cache">>}
NotesBlocks == {<<>>, <<"Notes: keep a backup">>}
AnswerParts ==
  {[intro |-> i, first |-> a, sep |-> IF b = <<>> THEN <<>> ELSE sp, second |-> b,
    notes |-> n] :
     i \in Intros, a \in FirstLists, sp \in Separators, b \in SecondLists,
     n \in NotesBlocks}
TextOf(parts) ==
  join("\n", parts.intro \o parts.first \o parts.sep \o parts.second \o parts.notes)

\* Tables: a header row Error | Cause | Remedy of th cells inside a thead, of
\* th cells in a plain tr, or of td cells, and up to MaxDataRows data rows.
HeadCells(tag) == [i \in 1..3 |-> Cell(tag, <<"Error", "Cause", "Remedy">>[i])]
HeaderKinds ==
  {[thead |-> TRUE, row |-> [head |-> TRUE, cells |-> HeadCells("th")]],
   [thead |-> FALSE, row |-> [head |-> FALSE, cells |-> HeadCells("th")]],
   [thead |-> FALSE, row |-> [head |-> FALSE, cells |-> HeadCells("td")]]}
DataRows ==
  {DataRow(<<"ORA-12154", "TNS could not resolve", "Check tnsnames.ora entry.">>),
   DataRow(<<"E1", "Too short a code", "Ignore.">>),
   DataRow(<<"  ", "", "Restart.">>),
   DataRow(<<"Login failed", "", "">>)}
Tables ==
  {[markup |-> TRUE,
    tables |-> <<[thead |-> h.thead, trs |-> <<h.row>> \o rows]>>] :
     h \in HeaderKinds, rows \in SeqsUpTo(DataRows, MaxDataRows)}

InitText ==
  /\ conf = DefaultConf
  /\ lib = Ratios(0, 0, 0, 0, 0)
  /\ Imported

sanitize_output_call ==
  /\ call = NoCall
  /\ \E parts \in AnswerParts :
       call' = [fn |-> "sanitize_output", parts |-> parts, text |-> TextOf(parts),
                ret |-> sanitize_output(TextOf(parts))]
  /\ UNCHANGED <<env, web, globals, heap, build, request>>

extract_table_rows_call ==
  /\ call = NoCall
  /\ \E html \in Tables :
       call' = [fn |-> "extract_table_rows_from_html", html |-> html,
                ret |-> extract_table_rows_from_html(html)]
  /\ UNCHANGED <<env, web, globals, heap, build, request>>

NextText ==
  \/ sanitize_output_call
  \/ extract_table_rows_call

SpecText == InitText /\ [][NextText]_vars

\* C8: sanitize_output on a text with two numbered lists returns only the
\* first: no numbered line of the second list, its "1." included, is in the
\* output.
C8_OnlyFirstNumberedList ==
  call.fn = "sanitize_output" =>
    \A i \in DOMAIN call.parts.second :
      call.parts.second[i] \notin Range(splitlines(call.ret))

\* C15: a table with header row Error | Cause | Remedy and one data row of 3
\* cells gives exactly one row, with the data cells as error, cause and
\* remedy, whether the header cells are th or td; a data row whose error
\* cell has fewer than 3 characters gives no row.
C15_OneRowPerDataRow ==
  call.fn = "extract_table_rows_from_html" =>
    LET trs == call.html.tables[1].trs
        Text(k, i) == strip(trs[k].cells[i].text)
    IN /\ Len(trs) = 2 /\ Len(Text(2, 1)) >= 3 =>
            /\ Len(call.ret) = 1
            /\ call.ret[1].error = Text(2, 1)
            /\ call.ret[1].cause = Text(2, 2)
            /\ call.ret[1].remedy = Text(2, 3)
       /\ \A k \in 2..Len(trs) :
            Len(Text(k, 1)) < 3 => \A r \in DOMAIN call.ret : call.ret[r].error # Text(k, 1)

\* C20: sanitize_output removes a line that expresses an alternative ("or try
\* reinstalling") when the line is not a numbered step, and keeps it when it
\* is itself a numbered step.
C20_AlternativeKeptIffNumbered ==
  call.fn = "sanitize_output" =>
    LET given == Range(splitlines(call.text))
        kept == Range(splitlines(call.ret))
    IN /\ "or try reinstalling" \notin kept
       /\ \A ln \in {"1. or try reinstalling", "2. or try reinstalling"} :
            ln \in given => ln \in kept

\* The line holds no forbidden phrase, escalation, alternative or filler.
NoBannedPhrase(ln) ==
  LET low == strip(lower(ln))
  IN /\ ~(ContainsAny(low, FORBIDDEN_PHRASES) \/ ESCALATE_PAT(low))
     /\ ~ALT_PAT(low)
     /\ ~GENERIC_FILLER_PAT(low)

\* C24: for a text with a single numbered list of two steps or more and no
\* forbidden, alternative or filler phrase, sanitize_output returns all the
\* steps in their order, and keeps a "Notes:" block that follows the list.
C24_SingleListKeptWhole ==
  /\ call.fn = "sanitize_output"
  /\ call.parts.second = <<>> /\ Len(call.parts.first) >= 2
  /\ \A ln \in Range(splitlines(call.text)) : NoBannedPhrase(ln)
  => /\ SelectSeq(splitlines(call.ret), IsNumbered) = call.parts.first
     /\ Range(call.parts.notes) \subseteq Range(splitlines(call.ret))

(***************************************************************************)
(* SpecAnswer: one rebuild of the index from a crawl, run to its end, then *)
(* one question asked of answer_from_kb, under several configurations,     *)
(* fuzzy-matching libraries and LLM replies.                               *)
(***************************************************************************)
AnswerConfs ==
  {[DefaultConf EXCEPT !.ROW_SCORE_MIN = m, !.STRICT_REMEDY_ONLY = s,
                       !.ERROR_PAGE_BIAS = b] :
     m \in {92000, 90000, 99000}, s \in BOOLEAN, b \in {18000, 0}}
AnswerLibs ==
  {Ratios(0, 0, 0, 0, 0),
   Ratios(100, 100, 50, 60, 0),
   Ratios(100, 100, 100, 100, 100),
   [Ratios(0, 0, 0, 0, 0) EXCEPT !.llm = "1. Restart the listener.\n2. Contact support."]}
\* What the crawl returns: nothing, a page that cannot be fetched, a
\* catalog of one row, a catalog of two rows without page text, a page of
\* text without tables, two catalogs.
Listings == {<<>>, <<5>>, <<1>>, <<3>>, <<4>>, <<1, 2>>}
Questions ==
  {"hello", "I'm getting ORA-12154", "Login failed", "Export button missing",
   "reset access"}

InitAnswer ==
  /\ conf \in AnswerConfs
  /\ lib \in AnswerLibs
  /\ Imported

answer_from_kb_call ==
  /\ build[1].pc = "done"
  /\ call = NoCall
  /\ \E query \in Questions :
       call' = [fn |-> "answer_from_kb", query |-> query, ret |-> answer_from_kb(query)]
  /\ UNCHANGED <<env, web, globals, heap, build, request>>

NextAnswer ==
  \/ preload_knowledge(1, Listings)
  \/ answer_from_kb_call

SpecAnswer == InitAnswer /\ [][NextAnswer]_vars

Asked == call.fn = "answer_from_kb"


\* The best candidate of the call reached the floor ROW_SCORE_MIN.
ReachedFloor(r) == r.scores # <<>> /\ r.scores[1] >= conf.ROW_SCORE_MIN

\* C4: answer_from_kb consults the row scorer first: it returns a row answer
\* if and only if the best row candidate's score is at least ROW_SCORE_MIN,
\* it consults the section ranker only when no row reaches that floor, and it
\* returns matched = false only when neither a row nor the sections gave an
\* answer.
C4_RowFirstThenSections ==
  Asked =>
    /\ call.ret.via = "row" <=> ReachedFloor(call.ret)
    /\ call.ret.via = "row" => call.ret.matched /\ ~call.ret.ranked
    /\ call.ret.ranked => ~ReachedFloor(call.ret)
    /\ call.ret.via = "sections" => call.ret.matched /\ call.ret.ranked
    /\ ~call.ret.matched <=> call.ret.via = "none"
    /\ call.ret.via = "none" => call.ret.answer = "" \/ ~call.ret.ranked

\* A row was scored below the floor, and the sections gave the answer.
C4_Witness ==
  /\ Asked
  /\ call.ret.scores # <<>> /\ call.ret.scores[1] < conf.ROW_SCORE_MIN
  /\ call.ret.via = "sections"


\* The row scores (score_row_against_query, lines 1182-1227) of the rows of
\* the index for the query, as line 1234 computes them.
RowScores(query) ==
  LET items == heap.rows[KB_ROWS]
  IN [i \in DOMAIN items |->
        score_row_against_query(ItemRow(items[i]),
                                strip(MapFrom(QueryCh, query, 1)),
                                ItemTitle(items[i]))]

\* One row of the index scores 0.95 for the query and every other row scores
\* below 0.5.
OneRowAt95(query) ==
  LET scores == RowScores(query)
  IN \E i \in DOMAIN scores :
       /\ scores[i] = 95000
       /\ \A j \in DOMAIN scores \ {i} : scores[j] < 50000

FormattedRemedy(item) == post_process_answer(format_row_better(ItemRow(item)))

EmptyIndex ==
  /\ heap.pages[KB_PAGES] = <<>>
  /\ heap.sections[KB_SECTIONS] = <<>> /\ heap.rows[KB_ROWS] = <<>>

\* C6: with an empty index (no page, hence no row and no section)
\* answer_from_kb returns matched = false for every query; and whenever it
\* returns matched = false, the answer is the empty string and the list of
\* sources is empty.
C6_EmptyIndexNeverMatches ==
  Asked =>
    /\ heap.pages[KB_PAGES] = <<>> => EmptyIndex /\ ~call.ret.matched
    /\ ~call.ret.matched => call.ret.answer = "" /\ call.ret.sources = <<>>

\* A question asked of an index built from a crawl without a usable page.
C6_Witness ==
  /\ Asked /\ EmptyIndex /\ build[1].pc = "done"
  /\ ~call.ret.matched /\ call.ret.answer = ""


\* A line that sanitize_output drops for its phrase (lines 743-746): one of
\* FORBIDDEN_PHRASES, or a match of ESCALATE_PAT.
Escalates(line) ==
  ContainsAny(lower(line), FORBIDDEN_PHRASES) \/ ESCALATE_PAT(lower(line))

\* C7: an answer that answer_from_kb returns with matched = true has no
\* line with a forbidden or escalation phrase ("contact support", "open a
\* ticket"), whichever path produced it: the row under STRICT_REMEDY_ONLY,
\* the row through the formatter, the sections.
C7_NoEscalationInAnswer ==
  Asked /\ call.ret.matched =>
    \A i \in DOMAIN splitlines(call.ret.answer) :
      ~Escalates(splitlines(call.ret.answer)[i])


\* The scenario: the index holds the single row of the catalog page, and the
\* configuration restricts the answer to the remedy with a floor at or below
\* the shipped one, as lines 84-103 ship it.
OraScenario ==
  /\ Asked /\ call.query = "I'm getting ORA-12154"
  /\ heap.rows[KB_ROWS] = <<[page |-> 1, row |-> 1]>>
  /\ ItemRow(heap.rows[KB_ROWS][1]).error = "ORA-12154"
  /\ ItemRow(heap.rows[KB_ROWS][1]).cause = "TNS could not resolve"
  /\ ItemRow(heap.rows[KB_ROWS][1]).remedy = "Check tnsnames.ora entry. Restart listener."
  /\ conf.STRICT_REMEDY_ONLY = DefaultConf.STRICT_REMEDY_ONLY
  /\ conf.ROW_SCORE_MIN <= DefaultConf.ROW_SCORE_MIN

\* The lines after "Do this:" that are numbered steps, up to the first line
\* that is not.
StepsAfterDoThis(lines) ==
  LET at == {d \in DOMAIN lines : lines[d] = "Do this:"}
  IN IF at = {} THEN <<>>
     ELSE LET d == CHOOSE x \in at : \A y \in at : x <= y
              last == CHOOSE n \in d..Len(lines) :
                        /\ \A j \in (d + 1)..n : IsNumbered(lines[j])
                        /\ n = Len(lines) \/ ~IsNumbered(lines[n + 1])
          IN SubSeq(lines, d + 1, last)

\* C9: with the single row {ORA-12154, TNS could not resolve, "Check
\* tnsnames.ora entry. Restart listener."} and the query "I'm getting
\* ORA-12154", answer_from_kb returns matched = true, the answer begins with
\* "Resolution for: ORA-12154", has a "Do this:" list of exactly 2 numbered
\* steps, and no escalation phrase.
C9_OraScenario ==
  OraScenario =>
    LET lines == splitlines(call.ret.answer)
        steps == StepsAfterDoThis(lines)
    IN /\ call.ret.matched /\ call.ret.via = "row"
       /\ startswith(call.ret.answer, "Resolution for: ORA-12154")
       /\ Len(steps) = 2
       /\ startswith(steps[1], "1. ") /\ startswith(steps[2], "2. ")
       /\ Len(SelectSeq(lines, IsNumbered)) = 2
       /\ \A i \in DOMAIN lines : ~Escalates(lines[i])

\* The scenario under the shipped configuration, answered from the row.
C9_Witness ==
  /\ OraScenario /\ conf = DefaultConf
  /\ call.ret.answer = "Resolution for: ORA-12154\n\nWhy:\n- TNS could not resolve\n\n"
                       \o "Do this:\n1. Check tnsnames.ora entry\n2. Restart listener."


\* The query has a token in common with a section of the index.
SharesTokenWithSection(query) ==
  LET q_tokens == tokenize(strip(MapFrom(QueryCh, query, 1)))
      secs == heap.section_tokens[KB_SECTION_TOKENS]
  IN \E i \in DOMAIN secs : Range(q_tokens) \cap Range(ItemTokens(secs[i])) # {}

\* C12: answer_from_kb reports matched = false whenever no row reaches the
\* row floor and no section clears a relevance bar: a query that shares no
\* token with any section and matches no row is not answered with
\* matched = true.
C12_IrrelevantQueryNotMatched ==
  Asked /\ ~ReachedFloor(call.ret) /\ ~SharesTokenWithSection(call.query) =>
    ~call.ret.matched


\* The generative formatter is unavailable: llm_chat has no client, or the
\* call raised and line 142 caught it, or the reply was blank.
FormatterUnavailable == strip(lib.llm) = ""

\* What the deterministic path gives for a row (lines 1310-1316 without the
\* LLM) and for the chunks of the sections (the extractive mode of
\* answer_sections).
DeterministicRowAnswer(item) ==
  IF conf.STRICT_REMEDY_ONLY /\ strip(ItemRow(item).remedy) # ""
  THEN post_process_answer(format_row_better(ItemRow(item)))
  ELSE post_process_answer(sanitize_output(format_row_better(ItemRow(item))))
DeterministicSectionAnswer(query, chunks) ==
  ExtractiveAnswer(tokenize(strip(MapFrom(QueryCh, query, 1))), chunks)

\* C13: when the generative formatter returns the empty string or fails,
\* the answer is the one of the deterministic path (format_row_better for a
\* row, the extractive sentences for sections), and answer_from_kb returns
\* a normal (matched, answer, sources) result.
C13_FormatterFailureFallsBack ==
  Asked /\ FormatterUnavailable =>
    /\ call.ret.via = "row" => call.ret.answer = DeterministicRowAnswer(call.ret.item)
    /\ call.ret.ranked =>
         LET extractive == DeterministicSectionAnswer(call.query, call.ret.chunks)
         IN IF strip(extractive) # ""
            THEN call.ret.via = "sections" /\ call.ret.answer = extractive
            ELSE call.ret.via = "none"
    /\ call.ret.matched \in BOOLEAN
    /\ call.ret.matched => call.ret.sources # <<>>

\* The formatter was asked (STRICT_REMEDY_ONLY off) and gave nothing: the
\* row is answered from by format_row_better.
C13_Witness ==
  /\ Asked /\ FormatterUnavailable /\ ~conf.STRICT_REMEDY_ONLY
  /\ call.ret.via = "row"
  /\ call.ret.answer = DeterministicRowAnswer(call.ret.item)
  /\ call.ret.answer # ""


\* C22: every candidate score produced per query lies in [0,1]: the blended
\* score of each row candidate of get_row_candidates and the score of each
\* section ranked by answer_sections.
C22_CandidateScoresInUnitInterval ==
  Asked =>
    /\ \A i \in DOMAIN call.ret.scores : call.ret.scores[i] \in 0..One
    /\ \A i \in DOMAIN call.ret.scored : call.ret.scored[i][1] \in 0..One


(***************************************************************************)
(* Intent routing and the chat handler.  A pattern is matched from a set   *)
(* of positions: each piece maps the positions where the match can stand   *)
(* (the index of the next character to read) to those after the piece.     *)
(***************************************************************************)
NonEmpty(x) == x # ""

\* One of the words, literally.
Lit(s, P, words) ==
  {x[1] + Len(x[2]) : x \in {y \in P \X words : StartsWithAt(s, y[1], y[2])}}
\* \s* and \s+
Spaces0(s, P) == UNION {p..(RunEnd(s, p, SpaceCh) + 1) : p \in P}
Spaces1(s, P) == UNION {(p + 1)..(RunEnd(s, p, SpaceCh) + 1) : p \in P}
\* \d{lo,hi}
Digits(s, P, lo, hi) ==
  UNION {{p + n : n \in {m \in lo..hi : RunEnd(s, p, Digit) >= p + m - 1}} : p \in P}
\* \b
AtBoundary(s, P) == {p \in P : Boundary(s, p)}

\* GREETING_PAT.search(t), line 1136: anchored at the start of the text.
GREETING_PAT(t) ==
  Assign(Spaces0(t, {1}), LAMBDA P :
    AtBoundary(t, Lit(t, P, {"hi", "hello", "hey", "how are you"})
                  \cup Lit(t, Lit(t, P, {"good "}),
                           {"morning", "afternoon", "evening"})) # {})

CreatorNouns ==
  {"creator", "developer", "owner", "author", "maker", "maintainer", "founder"}

\* CREATOR_PAT, lines 1138-1148: the three alternatives, from position i.
WhoIsCreator(t, i) ==
  Assign(Spaces1(t, Lit(t, {i}, {"who"})), LAMBDA P :
  Assign(P \cup Spaces1(t, Lit(t, P, {"is"})), LAMBDA Q :
  Assign(Q \cup Lit(t, Q, {"your", "ur", "the", "this"}), LAMBDA R :
    AtBoundary(t, Lit(t, Spaces0(t, R), CreatorNouns)))))
WhoMadeYou(t, i) ==
  Assign(Spaces1(t, Lit(t, {i}, {"who"})), LAMBDA P :
  Assign(Spaces1(t, Lit(t, P, {"made", "build", "built", "create", "created",
                               "develop", "developed"})), LAMBDA Q :
    AtBoundary(t, Lit(t, Q, {"you", "u", "this"})
                  \cup Lit(t, Spaces0(t, Lit(t, Q, {"the"})), {"bot"}))))
YouWereMadeBy(t, i) ==
  Assign(Lit(t, {i}, {"you", "u"})
         \cup Lit(t, Spaces0(t, Lit(t, {i}, {"this"})), {"bot"}), LAMBDA P :
  Assign(Spaces0(t, P), LAMBDA Q :
  Assign(Spaces0(t, Q \cup Lit(t, Q, {"was", "were"})), LAMBDA R :
  Assign(Lit(t, R, {"made", "built", "created", "developed"}), LAMBDA V :
    AtBoundary(t, Lit(t, Spaces0(t, V), {"by"}))))))

\* CREATOR_PAT.search(t), on text already in lower case.
CREATOR_PAT(t) ==
  \E i \in 1..Len(t) :
    /\ Boundary(t, i)
    /\ WhoIsCreator(t, i) \cup WhoMadeYou(t, i) \cup YouWereMadeBy(t, i) # {}

\* re.sub(r"[^a-z0-9\s]", " ", text.lower()), one character at a time.
CreatorCh(c) ==
  IF c \in CharsOf(LowerLetters) \cup Digit \cup SpaceCh THEN c ELSE " "

\* is_creator_query(text), lines 1149-1159.
is_creator_query(text) ==
  IF text = "" THEN FALSE
  ELSE Assign(MapFrom(CreatorCh, lower(text), 1), LAMBDA t :
       Assign(" " \o t \o " ", LAMBDA padded :
         /\ Contains(t, "who")
         /\ ContainsAny(padded, {" you ", " u ", " this ", " bot "})
         /\ \/ ContainsAny(padded, {" " \o n \o " " : n \in CreatorNouns})
            \/ ContainsAny(padded, {" create ", " created ", " build ", " built ",
                                    " make ", " made ", " develop ", " developed "})))

\* The text is a creator query, as route_intent tests it (line 1524).
IsCreator(t) == CREATOR_PAT(t) \/ is_creator_query(t)

\* The vocabulary of line 1527, searched between word boundaries.
KbVocabulary(t) ==
  \E i \in 1..Len(t) :
    /\ Boundary(t, i)
    /\ AtBoundary(t,
         Lit(t, {i}, {"err", "error", "exception", "failed", "permission", "denied",
                      "sqlstate", "remedy", "fix", "solution", "root cause",
                      "collate", "scenario", "capacity", "generate"})
         \cup Digits(t, Lit(t, Spaces0(t, Lit(t, {i}, {"http"})), {"4", "5"}), 2, 2)
         \cup Digits(t, Lit(t, {i}, {"ora-"}), 4, 5)) # {}

\* route_intent with the vocabulary tests ahead of the greeting and creator
\* tests.
route_intent_vocabulary_first(text) ==
  Assign(lower(strip(text)), LAMBDA t :
    IF Contains(t, "confluence") \/ Contains(t, "atlassian.net") THEN "kb"
    ELSE IF KbVocabulary(t) THEN "kb"
    ELSE IF UI_VISIBILITY_RE(t) THEN "kb"
    ELSE IF GREETING_PAT(t) THEN "chitchat"
    ELSE IF IsCreator(t) THEN "creator"
    ELSE "general")

\* route_intent(text), lines 1521-1530 (the URL pattern of line 1525 matches
\* only text that contains "atlassian.net").
route_intent(text) ==
  Assign(lower(strip(text)), LAMBDA t :
    IF GREETING_PAT(t) THEN "chitchat"
    ELSE IF IsCreator(t) THEN "creator"
    ELSE IF Contains(t, "confluence") \/ Contains(t, "atlassian.net") THEN "kb"
    ELSE IF KbVocabulary(t) THEN "kb"
    ELSE IF UI_VISIBILITY_RE(t) THEN "kb"
    ELSE "general")

\* FOLLOWUP_HINTS.search(s), line 1327.
FOLLOWUP_HINTS(s) ==
  SearchPhrases(lower(s),
                {<<"this">>, <<"that">>, <<"it">>, <<"they">>, <<"those">>,
                 <<"above">>, <<"previous">>, <<"earlier">>, <<"same">>,
                 <<"approach">>, <<"method">>, <<"solution">>, <<"steps">>,
                 <<"error">>, <<"issue">>, <<"problem">>, <<"fix">>})

Msg(role, text) == [role |-> role, text |-> text]

\* The text of the last message of the role with a text, "" without one.
LastText(messages, role) ==
  LET at == {i \in DOMAIN messages : messages[i].role = role /\ messages[i].text # ""}
  IN IF at = {} THEN ""
     ELSE messages[CHOOSE i \in at : \A j \in at : j <= i].text

\* build_context_augmented_query(chat, user_text, ocr_text), lines 1328-1339;
\* the conversations of the model are shorter than FOLLOWUP_CONTEXT_TURNS * 2.
build_context_augmented_query(messages, user_text, ocr_text) ==
  Assign(strip(join(" ", SelectSeq(<<user_text, ocr_text>>, NonEmpty))), LAMBDA combined :
    IF combined = "" THEN combined
    ELSE IF FOLLOWUP_HINTS(combined) /\ messages # <<>>
    THEN Assign(LastText(messages, "user"), LAMBDA last_user :
         Assign(LastText(messages, "bot"), LAMBDA last_bot :
           combined \o "\n" \o "\n\n--- Context ---\n"
           \o (IF last_user # "" THEN "Last user question: " \o last_user \o "\n" ELSE "")
           \o (IF last_bot # "" THEN "Last assistant answer: " \o last_bot \o "\n" ELSE "")))
    ELSE combined)

\* general_chat_response(user_text), lines 1341-1345.
general_chat_response(user_text) ==
  Assign(strip(lower(user_text)), LAMBDA t :
    IF AtBoundary(t, Lit(t, Spaces0(t, {1}), {"hi", "hello", "hey"})) # {}
    THEN "Hello! How can I assist you today?"
    ELSE IF Contains(t, "how are you")
    THEN "I'm doing well - thanks for asking! What can I help you solve?"
    ELSE "Happy to help! Share your error or question - I'll search the KB first "
         \o "and fill gaps with general help.")

\* llm_with_history(chat, user_text), lines 1347-1358.
llm_with_history(messages, user_text) ==
  Assign(llm_chat(<<messages, user_text>>), LAMBDA out :
    IF out # "" THEN out ELSE general_chat_response(user_text))

\* The line 1604 tests user_text for a creator query.
EarlyCreator(user_text) ==
  Assign(lower(user_text), LAMBDA lowered :
    \/ CREATOR_PAT(lowered)
    \/ is_creator_query(user_text)
    \/ /\ Contains(lowered, "openai")
       /\ ContainsAny(lowered, {"develop", "made", "created"}))

CREATOR_NAME == "Saish Naik"
KbNotice == "I didn't find a matching page in the indexed Confluence KB for this query."

\* lines 1596-1597: the user's message as the conversation shows it.
display_user(user_text, ocr_txt) ==
  Assign(strip(join(" ", SelectSeq(<<user_text,
                                     IF ocr_txt # "" THEN "Screenshot attached" ELSE "">>,
                                   NonEmpty))), LAMBDA shown :
    IF shown # "" THEN shown ELSE Ellipsis)

\* q_for_reasoning or user_text, lines 1626 and 1631.
QueryOf(q_for_reasoning, user_text) ==
  IF q_for_reasoning # "" THEN q_for_reasoning ELSE user_text

\* lines 1632-1658: the reply once the knowledge base was asked (found holds
\* what answer_from_kb returned) or was not (found is empty).
chat_reply(messages, user_text, ocr_txt, asked, intent, found) ==
  IF found # <<>> /\ found[1].matched
  THEN [by |-> "kb", intent |-> intent, kb |-> <<asked>>,
        messages |-> Append(messages, Msg("bot", found[1].answer))]
  ELSE IF found # <<>> /\ ContainsAny(lower(user_text), {"confluence", "atlassian.net"})
  THEN [by |-> "notice", intent |-> intent, kb |-> <<asked>>,
        messages |-> Append(messages, Msg("bot", KbNotice))]
  ELSE [by |-> "llm", intent |-> intent,
        kb |-> IF found # <<>> THEN <<asked>> ELSE <<>>,
        messages |->
          Append(messages,
                 Msg("bot", sanitize_output(
                       llm_with_history(messages,
                         IF asked # "" THEN asked
                         ELSE IF ocr_txt # "" THEN ocr_txt
                         ELSE "(no text)"))))]

\* lines 1630-1631: answer_from_kb is called under the intent "kb" only.
chat_answer(messages, user_text, ocr_txt, asked, intent) ==
  chat_reply(messages, user_text, ocr_txt, asked, intent,
             IF intent = "kb" THEN <<answer_from_kb(asked)>> ELSE <<>>)

\* lines 1602-1626: the creator reply, the replies from memory and history
\* (early is what memory_answer and handle_history_question give, "none"
\* when neither answers), then the routing.
chat_routed(messages, user_text, ocr_txt, early, asked) ==
  IF EarlyCreator(user_text)
  THEN [by |-> "creator", intent |-> "", kb |-> <<>>,
        messages |-> Append(messages, Msg("bot", "I was created by " \o CREATOR_NAME \o "."))]
  ELSE IF early # "none"
  THEN [by |-> early, intent |-> "", kb |-> <<>>,
        messages |-> Append(messages, Msg("bot", early))]
  ELSE chat_answer(messages, user_text, ocr_txt, asked, route_intent(asked))

\* line 1600, on the conversation with the user's message appended.
chat_posted(messages, user_text, ocr_txt, early) ==
  chat_routed(messages, user_text, ocr_txt, early,
              QueryOf(build_context_augmented_query(messages, user_text, ocr_txt),
                      user_text))

\* The POST branch of chat(chat_id), lines 1585-1658, on a conversation of
\* the given messages.  The result tells who answered (by), the intent once
\* routed, the text answer_from_kb was called with (nothing when it was not
\* called) and the conversation afterwards.
chat(messages0, user_text_raw, ocr_txt, early) ==
  chat_posted(Append(messages0, Msg("user", display_user(strip(user_text_raw), ocr_txt))),
              strip(user_text_raw), ocr_txt, early)

(***************************************************************************)
(* SpecChat: the index is built from a crawl, then one message is posted   *)
(* to a conversation, or one text is routed.                               *)
(***************************************************************************)
Texts ==
  {"", "hello", "Hi, login failed with error 500", "hey the export button is missing",
   "good morning", "how are you", "high error rate on login",
   "who made you", "Who is your creator?", "who created this error button",
   "this bot was built by whom? the menu is missing", "who can fix this build error",
   "was this made by OpenAI", "I'm getting ORA-12154", "Login failed",
   "Export button missing", "what about confluence", "what is the weather",
   "http 404 again", "it still fails"}
OcrTexts == {"", "ORA-12154 TNS could not resolve"}
Conversations ==
  {<<>>,
   <<Msg("user", "I'm getting ORA-12154"), Msg("bot", "Resolution for: ORA-12154")>>}
EarlyAnswers == {"none", "Your name is Sam.", "There isn't a previous message yet."}
ChatListings == {<<1, 3>>}

InitChat ==
  /\ conf = DefaultConf
  /\ lib \in {Ratios(0, 0, 0, 0, 0)}
  /\ Imported

route_intent_call ==
  /\ build[1].pc = "done"
  /\ call = NoCall
  /\ \E text \in Texts, ocr_txt \in OcrTexts :
       LET t == strip(join(" ", SelectSeq(<<text, ocr_txt>>, NonEmpty)))
       IN call' = [fn |-> "route_intent", text |-> t, ret |-> route_intent(t)]
  /\ UNCHANGED <<env, web, globals, heap, build, request>>

chat_call ==
  /\ build[1].pc = "done"
  /\ call = NoCall
  /\ \E messages \in Conversations, user_text \in Texts, ocr_txt \in OcrTexts,
        early \in EarlyAnswers :
       call' = [fn |-> "chat", messages |-> messages, user_text |-> user_text,
                ocr_txt |-> ocr_txt, early |-> early,
                ret |-> chat(messages, user_text, ocr_txt, early)]
  /\ UNCHANGED <<env, web, globals, heap, build, request>>

NextChat ==
  \/ preload_knowledge(1, ChatListings)
  \/ route_intent_call
  \/ chat_call

SpecChat == InitChat /\ [][NextChat]_vars

\* C17: a greeting or a creator query is never answered from the knowledge
\* base: route_intent returns "kb" only for text that matches neither the
\* greeting nor the creator patterns, and the chat handler does not call
\* answer_from_kb for a creator query or a greeting, whatever error or
\* UI-visibility vocabulary the text has besides.
C17_GreetingAndCreatorNeverKb ==
  /\ call.fn = "route_intent" /\ call.ret = "kb" =>
       /\ ~GREETING_PAT(lower(strip(call.text)))
       /\ ~IsCreator(lower(strip(call.text)))
  /\ call.fn = "chat" /\ IsCreator(lower(strip(call.user_text))) =>
       /\ call.ret.kb = <<>> /\ call.ret.by = "creator"
       /\ call.ret.messages[Len(call.ret.messages)] =
            Msg("bot", "I was created by " \o CREATOR_NAME \o ".")
  /\ call.fn = "chat" /\ GREETING_PAT(lower(strip(call.user_text))) =>
       call.ret.kb = <<>> /\ call.ret.by # "kb"

\* A creator query with error and UI vocabulary was posted and answered
\* with the creator's name.
C17_Witness ==
  /\ call.fn = "chat" /\ call.user_text = "who created this error button"
  /\ KbVocabulary(call.user_text) /\ UI_VISIBILITY_RE(call.user_text)
  /\ call.ret.by = "creator" /\ call.ret.kb = <<>>


(***************************************************************************)
(* The rebuild, under Spec: rebuilds started by the import and by          *)
(* reload_kb, running as threads.                                          *)
(***************************************************************************)
\* Every rebuild that was started has finished, and one was.
AllRebuildsFinished ==
  /\ \A b \in Builders : build[b].pc \in {"idle", "done"}
  /\ \E b \in Builders : build[b].pc = "done"

NoDuplicate(xs) == \A i, j \in DOMAIN xs : xs[i] = xs[j] => i = j

\* The index that lines 1110-1125 derive from a list of pages.
IndexOf(pages) ==
  LET sections == Flatten(MapSeq(SectionItems, pages))
      rows == Flatten(MapSeq(RowItems, pages))
  IN [sections |-> sections, section_tokens |-> sections,
      rows |-> rows, row_tokens |-> rows,
      SECTION_BM25 |-> IF sections # <<>>
                       THEN [docs_tokens |-> <<"section_tokens", KB_SECTION_TOKENS>>,
                             N |-> Len(sections)]
                       ELSE None,
      ROW_BM25 |-> IF rows # <<>>
                   THEN [docs_tokens |-> <<"row_tokens", ROW_TOKENS>>, N |-> Len(rows)]
                   ELSE None]

\* The index the globals hold.
CurrentIndex ==
  [sections |-> heap.sections[KB_SECTIONS],
   section_tokens |-> heap.section_tokens[KB_SECTION_TOKENS],
   rows |-> heap.rows[KB_ROWS], row_tokens |-> heap.row_tokens[ROW_TOKENS],
   SECTION_BM25 |-> SECTION_BM25, ROW_BM25 |-> ROW_BM25]

\* C18: once every rebuild that was triggered has finished, the pages,
\* sections, rows and indexes are those of one crawl: one page per distinct
\* page id, and the sections, rows and BM25 indexes derived from these
\* pages, with nothing left over or duplicated from an earlier or
\* overlapping rebuild.
C18_RebuildDiscardsPreviousGeneration ==
  AllRebuildsFinished =>
    /\ NoDuplicate(heap.pages[KB_PAGES])
    /\ CurrentIndex = IndexOf(heap.pages[KB_PAGES])


(***************************************************************************)
(* SpecRebuild: one rebuild, running alone, over a crawl whose pages may   *)
(* fail: page 5 cannot be fetched, page 7 has neither text nor markup,     *)
(* and the first table row of page 6 has no error text.  The thread of the *)
(* rebuild is scheduled until it ends.                                     *)
(***************************************************************************)
MaxListing == 3
CrawledIds == {1, 3, 5, 6, 7}
RebuildListings == SeqsUpTo(CrawledIds, MaxListing)

\* The crawl of lines 1082-1092, with its result kept in call.
list_pages_call ==
  /\ build[1].pc = "crawl"
  /\ \E refs \in RebuildListings :
       /\ build' = Crawled(1, refs)
       /\ call' = [fn |-> "list_pages", refs |-> refs]
  /\ UNCHANGED <<env, web, globals, heap, request>>

NextRebuild ==
  \/ preload_reset(1)
  \/ list_pages_call
  \/ preload_page(1)
  \/ preload_section(1)
  \/ preload_row(1)

SpecRebuild == Init /\ [][NextRebuild]_vars /\ WF_vars(NextRebuild)

\* The page ids of a crawl that give a page: fetched, with text or markup,
\* each once, in the order of the crawl.
Fetched(pid) ==
  /\ ~Pages[pid].error
  /\ strip(Pages[pid].text) # "" \/ Pages[pid].html.markup
FirstFetched(refs) ==
  LET First(i) == Fetched(refs[i]) /\ \A j \in 1..(i - 1) : refs[j] # refs[i]
      at == SelectSeq([i \in DOMAIN refs |-> i], First)
  IN [k \in DOMAIN at |-> refs[at[k]]]

\* The rows of a page's tables that have an error text: the data rows whose
\* first cell, under the header Error, has 3 characters or more.
ParsedRows(pid) ==
  LET trs == Flatten([t \in DOMAIN Pages[pid].html.tables |->
                         Pages[pid].html.tables[t].trs])
      Parsed(tr) == ~tr.head /\ Len(_clean_cell_text(tr.cells[1].text)) >= 3
  IN SelectSeq(trs, Parsed)

\* The rebuild has finished, and what it published is the index of the
\* pages of the crawl that could be fetched and parsed.
PublishedAllOthers ==
  build[1].pc = "done" =>
    /\ call.fn = "list_pages"
    /\ heap.pages[KB_PAGES] = FirstFetched(call.refs)
    /\ CurrentIndex = IndexOf(FirstFetched(call.refs))
    /\ \A i \in DOMAIN heap.pages[KB_PAGES] :
         LET pid == heap.pages[KB_PAGES][i]
         IN /\ site[pid].sections # <<>>
            /\ Len(site[pid].rows) = Len(ParsedRows(pid))
            /\ \A r \in DOMAIN site[pid].rows :
                 site[pid].rows[r].error =
                   _clean_cell_text(ParsedRows(pid)[r].cells[1].text)

\* C19: when fetching or parsing a page, or a row of its tables, fails
\* during a rebuild, only that item is skipped: the rebuild still ends, and
\* publishes the sections, the rows and both BM25 indexes of every other
\* page.
C19_FailedItemsSkipped == []PublishedAllOthers /\ <>(build[1].pc = "done")

\* A rebuild has finished whose crawl listed a page that could not be
\* fetched between two that could, one of them with a row without error
\* text.
C19_Witness ==
  /\ build[1].pc = "done" /\ call.fn = "list_pages" /\ call.refs = <<1, 5, 6>>
  /\ heap.pages[KB_PAGES] = <<1, 6>>
  /\ Len(heap.rows[KB_ROWS]) = 2
  /\ SECTION_BM25 # None /\ ROW_BM25 # None

(***************************************************************************)
(* The chat store, lines 1360-1430: one JSON document in the file at       *)
(* STORE_PATH, {"users": {uid: {"chats": [chat, ...]}}}.  Every handler    *)
(* loads the whole document, changes its copy and saves the whole copy.    *)
(* A chat is its id, title and messages; its memory, which is a field of   *)
(* the chat and goes where the chat goes, is left out, and the texts       *)
(* posted are texts that memory_answer and handle_history_question do not  *)
(* answer.                                                                 *)
(***************************************************************************)
MAX_HISTORY_MSGS == 240

\* _load_store(), lines 1364-1376, on the content of the file.
_load_store(file) ==
  IF file = None THEN [users |-> <<>>]
  ELSE IF "chats" \in DOMAIN file /\ "users" \notin DOMAIN file
  THEN [users |-> [u \in {"public"} |-> [chats |-> file.chats]]]
  ELSE IF "users" \notin DOMAIN file THEN [users |-> <<>>]
  ELSE file

\* _save_store(data), lines 1378-1383: the file holds the document.
_save_store(data) == data

\* The key _get_user_bucket looks the bucket up with, line 1387.
SharedKey(uid) == "public"

BucketKey(uid) == uid

\* The store after users.setdefault(uid, {"chats": []}), lines 1386-1387.
Bucketed(store, uid) ==
  IF BucketKey(uid) \in DOMAIN store.users THEN store
  ELSE [store EXCEPT !.users =
          [u \in DOMAIN store.users \cup {BucketKey(uid)} |->
             IF u \in DOMAIN store.users THEN store.users[u] ELSE [chats |-> <<>>]]]

\* _get_user_bucket(store, uid), lines 1385-1387.
_get_user_bucket(store, uid) == Bucketed(store, uid).users[BucketKey(uid)]

\* The store with the chats of the bucket of uid replaced.
SetChats(store, uid, chats) ==
  [Bucketed(store, uid) EXCEPT !.users[BucketKey(uid)].chats = chats]

\* _make_title_from_text(t), lines 1389-1393.
_make_title_from_text(t0) ==
  Assign(strip(t0), LAMBDA t1 :
    IF t1 = "" THEN "New chat"
    ELSE Assign(join(" ", split(t1)), LAMBDA t :
           IF Len(t) > 48 THEN SubSeq(t, 1, 48) \o Ellipsis ELSE t))

\* _find_chat(store, uid, chat_id), lines 1395-1400: the place of the chat
\* in the bucket, 0 for None.
_find_chat(store, uid, chat_id) ==
  LET chats == _get_user_bucket(store, uid).chats
      at == {i \in DOMAIN chats : chats[i].id = chat_id}
  IN IF at = {} THEN 0 ELSE CHOOSE i \in at : \A j \in at : i <= j

\* _create_chat(store, uid), lines 1402-1413, with the id uuid4 gave; the
\* store it returns is the store it saved.
_create_chat(store, uid, cid) ==
  SetChats(store, uid,
           <<[id |-> cid, title |-> "New chat", messages |-> <<>>]>>
           \o _get_user_bucket(store, uid).chats)

\* _append_msg(store, uid, chat_id, role, text), lines 1415-1421; called
\* where the chat was found, so that the store returned was saved.
_append_msg(store, uid, chat_id, role, text) ==
  LET i == _find_chat(store, uid, chat_id)
      chats == _get_user_bucket(store, uid).chats
      messages == Append(chats[i].messages, Msg(role, text))
      n == Len(messages)
  IN IF i = 0 THEN store
     ELSE SetChats(store, uid,
            [chats EXCEPT ![i].messages =
               IF n > MAX_HISTORY_MSGS
               THEN SubSeq(messages, n - MAX_HISTORY_MSGS + 1, n)
               ELSE messages])

\* _set_title_if_new(store, uid, chat_id, first_text), lines 1423-1428.
_set_title_if_new(store, uid, chat_id, first_text) ==
  LET i == _find_chat(store, uid, chat_id)
      chats == _get_user_bucket(store, uid).chats
  IN IF i = 0 THEN store
     ELSE IF chats[i].title = "New chat" /\ strip(first_text) # ""
     THEN SetChats(store, uid,
                   [chats EXCEPT ![i].title = _make_title_from_text(first_text)])
     ELSE store

(***************************************************************************)
(* The routes, lines 1535-1658, each on the content of the file, the uid   *)
(* of the session (login_required let the request in) and the id that      *)
(* uuid4 gives if a chat is created.  A handler leaves the content of the  *)
(* file and a response.                                                    *)
(***************************************************************************)
Redirect(file, chat_id) ==
  [file |-> file, status |-> "redirect", chat_id |-> chat_id, page |-> <<>>]

NotFound(file) ==
  [file |-> file, status |-> "404", chat_id |-> "", page |-> <<>>]

\* root(), lines 1537-1545.
root(file, uid, cid) ==
  LET store == _load_store(file)
      ub == _get_user_bucket(store, uid)
  IN IF ub.chats = <<>>
     THEN Redirect(_save_store(_create_chat(store, uid, cid)), cid)
     ELSE Redirect(file, ub.chats[1].id)

\* new_chat(), lines 1549-1553.
new_chat(file, uid, cid) ==
  Redirect(_save_store(_create_chat(_load_store(file), uid, cid)), cid)

\* delete_chat(chat_id), lines 1557-1574.
delete_chat(file, uid, chat_id, cid) ==
  LET store == _load_store(file)
      chats == _get_user_bucket(store, uid).chats
      idx == _find_chat(store, uid, chat_id)
      rest == SubSeq(chats, 1, idx - 1) \o SubSeq(chats, idx + 1, Len(chats))
      popped == SetChats(store, uid, rest)
  IN IF idx = 0
     THEN IF chats # <<>> THEN Redirect(file, chats[1].id)
          ELSE Redirect(_save_store(_create_chat(store, uid, cid)), cid)
     ELSE IF rest # <<>> THEN Redirect(_save_store(popped), rest[1].id)
     ELSE Redirect(_save_store(_create_chat(popped, uid, cid)), cid)

\* The chat list of the page, lines 1660-1663.
ChatList(chats) == [k \in DOMAIN chats |-> [id |-> chats[k].id, title |-> chats[k].title]]

\* chat(chat_id) on GET, lines 1579-1582 and 1660-1672.
chat_get(file, uid, chat_id) ==
  LET store == _load_store(file)
      i == _find_chat(store, uid, chat_id)
      chats == _get_user_bucket(store, uid).chats
  IN IF i = 0 THEN NotFound(file)
     ELSE [file |-> file, status |-> "page", chat_id |-> chat_id,
           page |-> <<[chats |-> ChatList(chats), chat_title |-> chats[i].title,
                       messages |-> chats[i].messages, user_id |-> uid]>>]

\* lines 1599-1600 of chat(chat_id) on POST: the user's message and the
\* title, each saved.
chat_post_user(store, uid, chat_id, user_text_raw) ==
  _set_title_if_new(
    _append_msg(store, uid, chat_id, "user", display_user(strip(user_text_raw), "")),
    uid, chat_id, strip(user_text_raw))

\* lines 1602-1655: the reply to a text posted to a conversation.
chat_post_reply(messages0, user_text_raw) ==
  Assign(chat(messages0, user_text_raw, "", "none").messages, LAMBDA after :
    after[Len(after)].text)

\* chat(chat_id) on POST, lines 1579-1658.
chat_post(file, uid, chat_id, user_text_raw) ==
  LET store == _load_store(file)
      i == _find_chat(store, uid, chat_id)
      messages0 == _get_user_bucket(store, uid).chats[i].messages
  IN IF i = 0 THEN NotFound(file)
     ELSE Redirect(
            _save_store(
              _append_msg(chat_post_user(store, uid, chat_id, user_text_raw),
                          uid, chat_id, "bot",
                          chat_post_reply(messages0, user_text_raw))),
            chat_id)

\* _load_users(), lines 165-176, with USERS_JSON naming two users.
_load_users == <<[id |-> "amy", password |-> "a1"], [id |-> "bob", password |-> "b2"]>>

\* _check_login(uid, pw), lines 178-182.
_check_login(uid, pw) ==
  \E k \in DOMAIN _load_users : _load_users[k].id = uid /\ _load_users[k].password = pw

(***************************************************************************)
(* SpecStore: browsers sign in and out and make requests, each request     *)
(* served from start to end before the next one.                           *)
(***************************************************************************)
MaxChats == 2
MaxPosts == 1
FormUids == {"amy", " bob", "eve"}
FormPasswords == {"a1", "b2 "}
ChatIds == {"c1", "c2"}
StoreTexts == {"hello", "who made you"}

\* A store file of the version that kept one list of chats for everybody.
LegacyFile ==
  [chats |-> <<[id |-> "c1", title |-> "hello",
               messages |-> <<Msg("user", "hello"),
                              Msg("bot", "Hello! How can I assist you today?")>>]>>]

\* The program is started without a store file, or with the file an
\* earlier version left.
InitStore ==
  /\ conf = DefaultConf
  /\ lib = Ratios(0, 0, 0, 0, 0)
  /\ ImportedIndex
  /\ store_file \in {None, LegacyFile}
  /\ session = [c \in Clients |-> ""]
  /\ handler = [h \in Handlers |-> IdleHandler]

\* The chats the document of the file holds for a user.
BucketOf(file, uid) ==
  LET users == _load_store(file).users
  IN IF uid \in DOMAIN users THEN users[uid].chats ELSE <<>>

Served(fn, uid, chat_id, ret) ==
  /\ store_file' = ret.file
  /\ call' = [fn |-> fn, uid |-> uid, chat_id |-> chat_id,
              ret |-> [status |-> ret.status, chat_id |-> ret.chat_id, page |-> ret.page]]
  /\ UNCHANGED <<env, globals, heap, build, request, session, handler>>

\* login() on POST, lines 229-240.
login_post(c) ==
  \E uid0 \in FormUids, pw0 \in FormPasswords :
    /\ session' = [session EXCEPT ![c] = IF _check_login(strip(uid0), strip(pw0))
                                         THEN strip(uid0) ELSE @]
    /\ call' = [fn |-> "login", uid |-> "", chat_id |-> "",
                ret |-> [status |-> IF _check_login(strip(uid0), strip(pw0))
                                    THEN "redirect" ELSE "login",
                         chat_id |-> "", page |-> <<>>]]
    /\ UNCHANGED <<env, globals, heap, build, request, store_file, handler>>

\* logout(), lines 242-245.
logout(c) ==
  /\ session[c] # ""
  /\ session' = [session EXCEPT ![c] = ""]
  /\ call' = [fn |-> "logout", uid |-> "", chat_id |-> "",
              ret |-> [status |-> "login", chat_id |-> "", page |-> <<>>]]
  /\ UNCHANGED <<env, globals, heap, build, request, store_file, handler>>

\* login_required, lines 184-190: without a uid in the session the request
\* is sent to the login page.
login_required(c) ==
  /\ session[c] = ""
  /\ Served("login_required", "", "", [file |-> store_file, status |-> "login",
                                       chat_id |-> "", page |-> <<>>])

root_request(c) ==
  /\ session[c] # ""
  /\ \E cid \in ChatIds : Served("root", session[c], "", root(store_file, session[c], cid))

new_chat_request(c) ==
  /\ session[c] # ""
  /\ Len(BucketOf(store_file, session[c])) < MaxChats
  /\ \E cid \in ChatIds :
       Served("new_chat", session[c], "", new_chat(store_file, session[c], cid))

delete_chat_request(c) ==
  /\ session[c] # ""
  /\ \E chat_id \in ChatIds, cid \in ChatIds :
       Served("delete_chat", session[c], chat_id,
              delete_chat(store_file, session[c], chat_id, cid))

chat_get_request(c) ==
  /\ session[c] # ""
  /\ \E chat_id \in ChatIds :
       Served("chat_get", session[c], chat_id, chat_get(store_file, session[c], chat_id))

chat_post_request(c) ==
  /\ session[c] # ""
  /\ \E chat_id \in ChatIds, text \in StoreTexts :
       /\ \A k \in DOMAIN BucketOf(store_file, session[c]) :
            BucketOf(store_file, session[c])[k].id = chat_id
            => Len(BucketOf(store_file, session[c])[k].messages) < 2 * MaxPosts
       /\ Served("chat_post", session[c], chat_id,
                 chat_post(store_file, session[c], chat_id, text))

NextStore ==
  \E c \in Clients :
    \/ login_post(c)
    \/ logout(c)
    \/ login_required(c)
    \/ root_request(c)
    \/ new_chat_request(c)
    \/ delete_chat_request(c)
    \/ chat_get_request(c)
    \/ chat_post_request(c)

SpecStore == InitStore /\ [][NextStore]_vars

\* Every user a bucket may stand for.
Everybody(file) ==
  {_load_users[k].id : k \in DOMAIN _load_users} \cup {"public"}
  \cup DOMAIN _load_store(file).users

\* The request just served left the chats of every other user as they were.
OthersUntouched ==
  \A v \in (Everybody(store_file) \cup Everybody(store_file')) \ {call'.uid} :
    BucketOf(store_file', v) = BucketOf(store_file, v)

\* The page just served shows a chat and the chat list of the bucket of the
\* user of the session, and a redirect leads to a chat of that bucket.
ServedFromOwnBucket ==
  LET own == BucketOf(store_file', call'.uid)
  IN /\ call'.ret.status = "page" =>
          /\ call'.ret.page[1].chats = ChatList(own)
          /\ \E k \in DOMAIN own :
               /\ own[k].id = call'.chat_id
               /\ own[k].title = call'.ret.page[1].chat_title
               /\ own[k].messages = call'.ret.page[1].messages
     /\ call'.ret.status = "redirect" /\ call'.fn # "login" =>
          \E k \in DOMAIN own : own[k].id = call'.ret.chat_id

\* C21: chats are isolated per signed-in user.  With requests served one
\* after the other, a request made with session uid u changes the chats of
\* no bucket but u's, shows only chats of u's bucket, and leads only to chats
\* of u's bucket; a request without a session changes nothing.
C21_ChatsIsolatedPerUser ==
  [][OthersUntouched /\ ServedFromOwnBucket]_vars

\* bob posted to the chat whose id amy's untouched chat has as well.
C21_Witness ==
  /\ call # NoCall
  /\ call.fn = "chat_post" /\ call.uid = "bob" /\ call.ret.status = "redirect"
  /\ \E k \in DOMAIN BucketOf(store_file, "amy") :
       /\ BucketOf(store_file, "amy")[k].id = call.chat_id
       /\ BucketOf(store_file, "amy")[k].messages = <<>>
  /\ \E k \in DOMAIN BucketOf(store_file, "bob") :
       /\ BucketOf(store_file, "bob")[k].id = call.chat_id
       /\ Len(BucketOf(store_file, "bob")[k].messages) = 2

(***************************************************************************)
(* SpecOverlap: the server runs each request on a thread of its own, so    *)
(* that posts overlap.  A post is served in steps, one for the load of     *)
(* line 1580 and one for each _save_store: after the user's message (line  *)
(* 1599), after the title (1600), after the memory update (1609) and after *)
(* the reply (1605 or 1657).  _store_lock is held within _save_store only. *)
(***************************************************************************)
OverlapFile ==
  [users |-> [u \in {"amy", "bob"} |->
     [chats |-> IF u = "amy"
                THEN <<[id |-> "c2", title |-> "New chat", messages |-> <<>>],
                       [id |-> "c1", title |-> "New chat", messages |-> <<>>]>>
                ELSE <<[id |-> "c1", title |-> "New chat", messages |-> <<>>]>>]]]

\* Both users have opened chats, as SpecStore lets them.
InitOverlap ==
  /\ conf = DefaultConf
  /\ lib = Ratios(0, 0, 0, 0, 0)
  /\ ImportedIndex
  /\ store_file = OverlapFile
  /\ session = [c \in Clients |-> ""]
  /\ handler = [h \in Handlers |-> IdleHandler]

\* lines 1579-1582 and 1586-1587: the uid of the session, the store and the
\* chat (a chat that is not found ends the request with 404).
chat_load(h, c) ==
  /\ handler[h].pc = "idle"
  /\ session[c] # ""
  /\ \E chat_id \in ChatIds, text \in StoreTexts :
       LET store == _load_store(store_file)
           i == _find_chat(store, session[c], chat_id)
       IN /\ i # 0
          /\ handler' = [handler EXCEPT ![h] =
               [pc |-> "loaded", uid |-> session[c], chat_id |-> chat_id,
                user_text_raw |-> text, store |-> store,
                messages0 |-> _get_user_bucket(store, session[c]).chats[i].messages]]
  /\ UNCHANGED <<env, globals, heap, build, request, call, store_file, session>>

\* line 1599: _append_msg with the user's message.
chat_save_user(h) ==
  /\ handler[h].pc = "loaded"
  /\ LET store == _append_msg(handler[h].store, handler[h].uid, handler[h].chat_id, "user",
                              display_user(strip(handler[h].user_text_raw), ""))
     IN /\ store_file' = _save_store(store)
        /\ handler' = [handler EXCEPT ![h].pc = "posted", ![h].store = store]
  /\ UNCHANGED <<env, globals, heap, build, request, call, session>>

\* line 1600: _set_title_if_new, which saves if it sets the title.
chat_save_title(h) ==
  /\ handler[h].pc = "posted"
  /\ LET store == _set_title_if_new(handler[h].store, handler[h].uid, handler[h].chat_id,
                                    strip(handler[h].user_text_raw))
     IN /\ store_file' = IF store # handler[h].store THEN _save_store(store) ELSE store_file
        /\ handler' = [handler EXCEPT ![h].pc = "titled", ![h].store = store]
  /\ UNCHANGED <<env, globals, heap, build, request, call, session>>

\* lines 1608-1609, which a creator query does not reach.
chat_save_memory(h) ==
  /\ handler[h].pc = "titled"
  /\ ~EarlyCreator(strip(handler[h].user_text_raw))
  /\ store_file' = _save_store(handler[h].store)
  /\ handler' = [handler EXCEPT ![h].pc = "remembered"]
  /\ UNCHANGED <<env, globals, heap, build, request, call, session>>

\* line 1605 or 1657: _append_msg with the reply.
chat_save_bot(h) ==
  /\ \/ handler[h].pc = "titled" /\ EarlyCreator(strip(handler[h].user_text_raw))
     \/ handler[h].pc = "remembered"
  /\ LET store == _append_msg(handler[h].store, handler[h].uid, handler[h].chat_id, "bot",
                              chat_post_reply(handler[h].messages0,
                                              handler[h].user_text_raw))
     IN /\ store_file' = _save_store(store)
        /\ handler' = [handler EXCEPT ![h].pc = "done", ![h].store = store]
  /\ UNCHANGED <<env, globals, heap, build, request, call, session>>

NextOverlap ==
  \/ \E c \in Clients : login_post(c)
  \/ \E h \in Handlers :
       \/ \E c \in Clients : chat_load(h, c)
       \/ chat_save_user(h)
       \/ chat_save_title(h)
       \/ chat_save_memory(h)
       \/ chat_save_bot(h)

SpecOverlap == InitOverlap /\ [][NextOverlap]_vars

\* The messages the post of a handler appended are in the chat of the file.
Persisted(h) ==
  \E k \in DOMAIN BucketOf(store_file, handler[h].uid) :
    LET stored == BucketOf(store_file, handler[h].uid)[k]
        mine == handler[h].store.users[handler[h].uid].chats[
                  _find_chat(handler[h].store, handler[h].uid, handler[h].chat_id)].messages
    IN /\ stored.id = handler[h].chat_id
       /\ \E at \in DOMAIN stored.messages :
            /\ at < Len(stored.messages)
            /\ stored.messages[at] = mine[Len(mine) - 1]
            /\ stored.messages[at + 1] = mine[Len(mine)]

\* C30: no chat message is lost when requests overlap: once two posts have
\* finished, the file holds the messages each of them appended.
C30_NoMessageLostOnOverlap ==
  (\A h \in Handlers : handler[h].pc = "done") => \A h \in Handlers : Persisted(h)

(***************************************************************************)
(* SpecRank: the index is built from a crawl, among them one of a page     *)
(* with more rows than a ranking returns and with equal rows, then         *)
(* get_row_candidates is called as answer_from_kb calls it (top_k = 12).   *)
(***************************************************************************)
RankListings == {<<>>, <<1>>, <<3>>, <<8>>, <<8, 3>>, <<3, 8>>, <<6, 3>>}
RankQueries == {"", "Disk full", "Login failed", "Quota", "the weather", "Limit reached"}
RankLibs == {Ratios(0, 0, 0, 0, 0), Ratios(100, 100, 50, 60, 0)}

InitRank ==
  /\ conf = DefaultConf
  /\ lib \in RankLibs
  /\ Imported

\* get_row_candidates sorting and cutting the list KB_ROWS is bound to, in
\* place of the list of candidates it built: the rows are left in the order
\* of the candidates returned.
get_row_candidates_in_place ==
  /\ build[1].pc = "done"
  /\ call = NoCall
  /\ \E query \in RankQueries :
       call' = [fn |-> "get_row_candidates", query |-> query,
                cands |-> RowCandidates(query),
                ret |-> get_row_candidates(query, 12)]
  /\ heap' = [heap EXCEPT !.rows[KB_ROWS] =
                [i \in DOMAIN call'.ret |-> call'.ret[i][3]]]
  /\ UNCHANGED <<env, web, globals, build, request>>

get_row_candidates_call ==
  /\ build[1].pc = "done"
  /\ call = NoCall
  /\ \E query \in RankQueries :
       call' = [fn |-> "get_row_candidates", query |-> query,
                cands |-> RowCandidates(query),
                ret |-> get_row_candidates(query, 12)]
  /\ UNCHANGED <<env, web, globals, heap, build, request>>

NextRank ==
  \/ preload_knowledge(1, RankListings)
  \/ get_row_candidates_call

SpecRank == InitRank /\ [][NextRank]_vars

\* Candidate a ranks before candidate b: a greater score, or an equal score
\* and an earlier row.
Before(a, b) == a[1] > b[1] \/ (a[1] = b[1] /\ a[2] < b[2])

\* C23: get_row_candidates returns the first min(12, number of rows)
\* candidates of the ranking by descending score, two rows of equal score in
\* their extraction order: the candidates returned are in that order, and
\* every candidate left out ranks after every one returned.
C23_StableTopTwelve ==
  call.fn = "get_row_candidates" =>
    /\ Len(call.cands) = Len(heap.rows[KB_ROWS])
    /\ Len(call.ret) = Min(12, Len(call.cands))
    /\ Range(call.ret) \subseteq Range(call.cands)
    /\ \A a, b \in DOMAIN call.ret : a < b => Before(call.ret[a], call.ret[b])
    /\ \A c \in Range(call.cands) \ Range(call.ret) :
         \A k \in DOMAIN call.ret : Before(call.ret[k], c)

\* Thirteen rows, twelve returned: three equal rows lead in their extraction
\* order, and of the rows of the lowest score the last one is left out.
C23_Witness ==
  /\ call.fn = "get_row_candidates"
  /\ Len(call.cands) = ManyRows /\ Len(call.ret) = 12
  /\ call.ret[1][1] = call.ret[3][1] /\ call.ret[1][1] > call.ret[4][1]
  /\ <<call.ret[1][2], call.ret[2][2], call.ret[3][2]>> = <<1, 3, ManyRows - 1>>
  /\ \E c \in Range(call.cands) \ Range(call.ret) : c[1] = call.ret[12][1]

(***************************************************************************)
(* SpecFormat: format_row_better and post_process_answer called on their   *)
(* own, under configured step floors and character budgets.                *)
(***************************************************************************)
MaxSteps == 22

\* _estimate_step_cap_from_text(remedy_text, base_cap), lines 862-886.
_estimate_step_cap_from_text(remedy_text, base_cap) ==
  IF remedy_text = "" THEN Max(4, base_cap)
  ELSE Assign(Matches(FragmentBreakEnd, remedy_text, 1), LAMBDA breaks :
       Assign(SelectSeq(MapSeq(strip, SplitAt(remedy_text, 1, breaks)), NonBlank),
              LAMBDA frags :
       Assign(Len(SelectSeq(frags, ActionLike)), LAMBDA actiony :
         Min(IF actiony >= 12 THEN Max(base_cap, 12)
             ELSE IF actiony >= 9 THEN Max(base_cap, 10)
             ELSE IF actiony >= 7 THEN Max(base_cap, 8)
             ELSE IF actiony >= 5 THEN Max(base_cap, 7)
             ELSE Max(4, base_cap), 20))))

\* [*_`] and " +" of post_process_answer in src/app.py.
EmphasisEnd(s, i) == IF Ch(s, i) \in {"*", "_"} THEN i ELSE i - 1
SpacesEnd(s, i) == RunEnd(s, i, {" "})

\* post_process_answer(raw) of src/app.py, lines 685-693.
app_post_process_answer(raw0) ==
  Assign(Matches(SourceEnd, raw0, 1), LAMBDA sources :
  Assign(SplitAt(raw0, 1, sources)[1], LAMBDA raw1 :
  Assign(re_sub(EmphasisEnd, "", raw1), LAMBDA raw2 :
  Assign(re_sub(SpacesEnd, " ", raw2), LAMBDA raw3 :
  Assign(re_sub(ParaEnd, "\n", raw3), LAMBDA raw4 :
  Assign(join("\n", SelectSeq(MapSeq(strip, splitlines(raw4)), NonEmpty)), LAMBDA out :
    IF conf.MAX_ANSWER_CHARS >= 0 /\ Len(out) > conf.MAX_ANSWER_CHARS
    THEN SliceTo(out, conf.MAX_ANSWER_CHARS - 1) \o Ellipsis
    ELSE out))))))

StepFloors == {0, 4, 5, 12, 25}
CharBudgets == {-1, 0, 1, 12}
FormatConfs ==
  {[DefaultConf EXCEPT !.PINPOINT_MAX_STEPS = p, !.MAX_ANSWER_CHARS = m] :
     p \in StepFloors, m \in CharBudgets}

\* Remedies of n steps, and one of sentences that are no actions.
StepsText(n) == join(". ", [k \in 1..n |-> "Open tab " \o str(k)])
Remedies ==
  {StepsText(n) : n \in {0, 3, 6, 13, MaxSteps}}
  \cup {"Wait. Then wait more. Be patient. Relax. Breathe. Sleep"}
FormatRows ==
  {[error |-> "Disk full", cause |-> "", remedy |-> r, suggestions |-> "",
    text |-> "Disk full " \o r] : r \in Remedies}

\* Raw answers: a body and, possibly, the source named after a marker.
RawBodies ==
  {"", "Do this:\n1. Restart the listener", "Set *max_size*  to 10.\n\n\nSave.",
   "Restart it."}
RawSources == {"", "Error Catalog"}
RawAnswers == {[body |-> b, source |-> src] : b \in RawBodies, src \in RawSources}
RawText(raw) ==
  raw.body \o (IF raw.source # "" THEN "\nSource: " \o raw.source ELSE "")

InitFormat ==
  /\ conf \in FormatConfs
  /\ lib = Ratios(0, 0, 0, 0, 0)
  /\ Imported

format_row_better_call ==
  /\ call = NoCall
  /\ \E row \in FormatRows :
       call' = [fn |-> "format_row_better", row |-> row,
                cap |-> _estimate_step_cap_from_text(row.remedy, conf.PINPOINT_MAX_STEPS),
                ret |-> format_row_better(row)]
  /\ UNCHANGED <<env, web, globals, heap, build, request>>

post_process_answer_call ==
  /\ call = NoCall
  /\ \E raw \in RawAnswers :
       call' = [fn |-> "post_process_answer", raw |-> raw,
                ret |-> post_process_answer(RawText(raw)),
                app |-> app_post_process_answer(RawText(raw))]
  /\ UNCHANGED <<env, web, globals, heap, build, request>>

NextFormat ==
  \/ format_row_better_call
  \/ post_process_answer_call

SpecFormat == InitFormat /\ [][NextFormat]_vars

\* The steps of the numbered list of a formatted answer.
NumberedSteps(answer) == SelectSeq(splitlines(answer), IsNumbered)

\* C25: the numbered list of a deterministically formatted row answer has no
\* more steps than the dynamic cap computed from the remedy text, and no more
\* than 20, whatever floor PINPOINT_MAX_STEPS is configured.
C25_StepsWithinDynamicCap ==
  call.fn = "format_row_better" =>
    /\ Len(NumberedSteps(call.ret)) <= call.cap
    /\ Len(NumberedSteps(call.ret)) <= 20

\* C26: with a character budget MAX_ANSWER_CHARS >= 0 (0 included),
\* post_process_answer returns at most that many characters, and the text
\* after a "Source:" marker is not in what it returns.
C26_BudgetKeptAndSourceStripped ==
  call.fn = "post_process_answer" =>
    \A out \in {call.ret, call.app} :
      /\ conf.MAX_ANSWER_CHARS >= 0 => Len(out) <= conf.MAX_ANSWER_CHARS
      /\ call.raw.source # "" =>
           ~Contains(out, "Source:") /\ ~Contains(out, call.raw.source)



(***************************************************************************)
(* answer_from_kb while the first build is still filling the lists         *)
(* (SpecFallback): the request runs between two steps of the build.        *)
(***************************************************************************)
InitFallback ==
  /\ conf \in AnswerConfs
  /\ lib \in AnswerLibs
  /\ Imported

\* The request, with what the lists held when it ran: the first page (None
\* when there was no page) and the number of sections.
answer_from_kb_midway ==
  /\ call = NoCall
  /\ \E query \in Questions :
       call' = [fn |-> "answer_from_kb_midway", query |-> query,
                ret |-> answer_from_kb(query),
                first |-> IF heap.pages[KB_PAGES] # <<>>
                          THEN get_page_content(heap.pages[KB_PAGES][1]) ELSE None,
                sections |-> Len(heap.sections[KB_SECTIONS])]
  /\ UNCHANGED <<env, web, globals, heap, build, request>>

NextFallback ==
  \/ preload_knowledge(1, Listings)
  \/ answer_from_kb_midway

SpecFallback == InitFallback /\ [][NextFallback]_vars

\* C27: when no row reaches the floor, there is no section and there is a
\* page, answer_from_kb answers from one pseudo-section, the first 800
\* characters of the first page, and cites that page.
C27_PseudoSectionOfFirstPage ==
  (/\ call.fn = "answer_from_kb_midway"
   /\ ~ReachedFloor(call.ret)
   /\ call.sections = 0
   /\ call.first # None)
  => /\ call.ret.chunks = <<Prefix(call.first.text, 800)>>
     /\ call.ret.sources = <<[title |-> call.first.title, url |-> call.first.url]>>


(***************************************************************************)
(* The three functions of query evaluation over a finished build           *)
(* (SpecQuery).                                                            *)
(***************************************************************************)
QueryListings == Listings \cup {<<1, 3>>}

InitQuery ==
  /\ conf \in AnswerConfs
  /\ lib \in AnswerLibs
  /\ Imported

answer_sections_call ==
  /\ build[1].pc = "done"
  /\ call = NoCall
  /\ \E query \in Questions :
       call' = [fn |-> "answer_sections", query |-> query,
                ret |-> answer_sections(query)]
  /\ UNCHANGED <<env, web, globals, heap, build, request>>

NextQuery ==
  \/ preload_knowledge(1, QueryListings)
  \/ answer_from_kb_call
  \/ get_row_candidates_call
  \/ answer_sections_call

SpecQuery == InitQuery /\ [][NextQuery]_vars

\* A step of query evaluation: one of the three functions returns.
Evaluated == call = NoCall /\ call' # NoCall

\* C28: query evaluation is read-only: a call of answer_from_kb, of
\* get_row_candidates or of answer_sections leaves the lists of pages,
\* sections and rows, the token lists and both BM25 indexes as they were,
\* whatever the query and whatever is returned.
C28_QueryEvaluationReadOnly ==
  [][Evaluated => UNCHANGED <<globals, heap>>]_vars

\* get_row_candidates returned candidates in another order than the rows'.
C28_Witness ==
  /\ call.fn = "get_row_candidates"
  /\ Len(call.ret) >= 2
  /\ call.ret[1][2] # 0
  /\ call.ret[1][3] = heap.rows[KB_ROWS][call.ret[1][2] + 1]


(***************************************************************************)
(* The index between rebuilds (SpecAlign): the rebuilds without requests,  *)
(* with the two appends of a loop iteration as two steps, so that another  *)
(* rebuild may rebind the lists between them.                              *)
(***************************************************************************)
\* lines 1110-1116, one step per statement: one statement of the loops over the pages list (the
\* object bound when the loop started) and over a page's sections:
\* KB_SECTIONS.append of line 1114, then KB_SECTION_TOKENS.append of line
\* 1115, each on the list its global is bound to by then; once the pages are
\* exhausted, SECTION_BM25 = BM25(KB_SECTION_TOKENS) if KB_SECTIONS else None.
preload_section_by_statement(b) ==
  /\ build[b].pc \in {"sections", "section_tokens"}
  /\ LET s == build[b]
         pages == heap.pages[s.it]
     IN IF s.i + 1 > Len(pages)
        THEN /\ SECTION_BM25' = IF heap.sections[KB_SECTIONS] # <<>>
                                THEN BM25("section_tokens", KB_SECTION_TOKENS)
                                ELSE None
             /\ build' = [build EXCEPT ![b].pc = "rows", ![b].it = KB_PAGES,
                                       ![b].i = 0, ![b].j = 0]
             /\ heap' = heap
        ELSE LET secs == SectionItems(pages[s.i + 1])
                 k == s.j + 1
             IN /\ SECTION_BM25' = SECTION_BM25
                /\ IF s.pc = "sections"
                   THEN /\ heap' = [heap EXCEPT
                              !.sections[KB_SECTIONS] = Append(@, secs[k])]
                        /\ build' = [build EXCEPT ![b].pc = "section_tokens"]
                   ELSE /\ heap' = [heap EXCEPT
                              !.section_tokens[KB_SECTION_TOKENS] = Append(@, secs[k])]
                        /\ build' = IF k = Len(secs)
                                    THEN [build EXCEPT ![b].pc = "sections",
                                                       ![b].i = s.i + 1, ![b].j = 0]
                                    ELSE [build EXCEPT ![b].pc = "sections",
                                                       ![b].j = k]
  /\ UNCHANGED <<env, web, call, KB_PAGES, KB_SECTIONS, KB_SECTION_TOKENS, KB_ROWS,
                 ROW_TOKENS, ROW_BM25, request>>

\* lines 1118-1125: one statement of the loops over the pages and their
\* rows: KB_ROWS.append of line 1121, then ROW_TOKENS.append of line 1122,
\* each on the list its global is bound to by then; once the pages are
\* exhausted, ROW_BM25 = BM25(ROW_TOKENS) if KB_ROWS else None and the
\* rebuild is over.
preload_row_by_statement(b) ==
  /\ build[b].pc \in {"rows", "row_tokens"}
  /\ LET s == build[b]
         pages == heap.pages[s.it]
     IN IF s.i + 1 > Len(pages)
        THEN /\ ROW_BM25' = IF heap.rows[KB_ROWS] # <<>>
                            THEN BM25("row_tokens", ROW_TOKENS)
                            ELSE None
             /\ build' = [build EXCEPT ![b] = [IdleBuild EXCEPT !.pc = "done"]]
             /\ heap' = heap
        ELSE LET rows == RowItems(pages[s.i + 1])
                 k == s.j + 1
             IN /\ ROW_BM25' = ROW_BM25
                /\ IF rows = <<>>
                   THEN /\ heap' = heap
                        /\ build' = [build EXCEPT ![b].i = s.i + 1, ![b].j = 0]
                   ELSE IF s.pc = "rows"
                   THEN /\ heap' = [heap EXCEPT !.rows[KB_ROWS] = Append(@, rows[k])]
                        /\ build' = [build EXCEPT ![b].pc = "row_tokens"]
                   ELSE /\ heap' = [heap EXCEPT
                              !.row_tokens[ROW_TOKENS] = Append(@, rows[k])]
                        /\ build' = IF k = Len(rows)
                                    THEN [build EXCEPT ![b].pc = "rows",
                                                       ![b].i = s.i + 1, ![b].j = 0]
                                    ELSE [build EXCEPT ![b].pc = "rows", ![b].j = k]
  /\ UNCHANGED <<env, web, call, KB_PAGES, KB_SECTIONS, KB_SECTION_TOKENS, SECTION_BM25,
                 KB_ROWS, ROW_TOKENS, request>>

NextAlign ==
  \/ \E b \in Builders : reload_kb(b)
  \/ \E b \in Builders : preload_reset(b)
  \/ \E b \in Builders : preload_crawl(b, CrawlResults)
  \/ \E b \in Builders : preload_page(b)
  \/ \E b \in Builders : preload_section_by_statement(b)
  \/ \E b \in Builders : preload_row_by_statement(b)

SpecAlign == Init /\ [][NextAlign]_vars

NoRebuildRunning == \A b \in Builders : ~Running(b)

\* A list of items, its list of tokens and its BM25 index describe the same
\* entries in the same order: the lists are as long as each other, the
\* tokens at each position are those of the item there, and the index was
\* made from this list of tokens when it had this length; no index (None)
\* goes with no entry.
AlignedLists(items, kind, ref, bm) ==
  /\ Len(heap[kind][ref]) = Len(items)
  /\ \A i \in 1..Len(items) : ItemTokens(heap[kind][ref][i]) = ItemTokens(items[i])
  /\ IF bm = None THEN items = <<>>
     ELSE bm.docs_tokens = <<kind, ref>> /\ bm.N = Len(items)

\* Some section of the list was made from the page.
HasSection(pid) ==
  \E i \in 1..Len(heap.sections[KB_SECTIONS]) : heap.sections[KB_SECTIONS][i].page = pid

\* C29: whenever no rebuild is running the index is aligned: sections,
\* section tokens and SECTION_BM25 describe the same sections in the same
\* order, rows, row tokens and ROW_BM25 the same rows in the same order, and
\* every page has at least one section.
C29_IndexAlignedBetweenRebuilds ==
  NoRebuildRunning =>
    /\ AlignedLists(heap.sections[KB_SECTIONS], "section_tokens", KB_SECTION_TOKENS,
                    SECTION_BM25)
    /\ AlignedLists(heap.rows[KB_ROWS], "row_tokens", ROW_TOKENS, ROW_BM25)
    /\ \A i \in 1..Len(heap.pages[KB_PAGES]) : HasSection(heap.pages[KB_PAGES][i])

=============================================================================
